---------------------------- MODULE Spec2Model ----------------------------
(***************************************************************************)
(* A model of the request/response marshalling layer of the Stripe client  *)
(* library: parameter structures and their serialization, resource DTOs    *)
(* and their deserialization, and the resource operation methods that hand *)
(* a path and a parameter structure to the transport and return its        *)
(* result.                                                                 *)
(***************************************************************************)
EXTENDS Naturals, Sequences, FiniteSets, TLC

(***************************************************************************)
(* Bounds of the model.                                                    *)
(***************************************************************************)
\* the number of callers that hold a call slot
NumCallers == 2
\* the largest number of optional fields one parameter structure populates
MaxPopulated == 2
\* the largest number of items on one page of a list response
MaxItems == 2
\* the largest number of calls of id() and of object() on one DTO
MaxAccessorCalls == 2

Callers == 1..NumCallers

(***************************************************************************)
(* JSON values (the serde data model).  Every value is a record of the     *)
(* same five fields, so that values of different shapes can be compared:   *)
(* t is the shape, s the string, n the number (or the boolean as 0/1),     *)
(* o the fields of an object or a map, a the elements of an array.         *)
(***************************************************************************)
NoFields == [k \in {} |-> 0]

JNull == [t |-> "null", s |-> "", n |-> 0, o |-> NoFields, a |-> << >>]
JStr(x) == [t |-> "str", s |-> x, n |-> 0, o |-> NoFields, a |-> << >>]
JNum(x) == [t |-> "num", s |-> "", n |-> x, o |-> NoFields, a |-> << >>]
JBool(b) == [t |-> "bool", s |-> "", n |-> IF b THEN 1 ELSE 0, o |-> NoFields, a |-> << >>]
JObj(f) == [t |-> "obj", s |-> "", n |-> 0, o |-> f, a |-> << >>]
JArr(q) == [t |-> "arr", s |-> "", n |-> 0, o |-> NoFields, a |-> q]

Has(f, k) == k \in DOMAIN f

(***************************************************************************)
(* Values of the fields of a structure.  An Option field is None or        *)
(* Some(v); a plain field (a slice, a &str, an i64) always holds a value.  *)
(* An instance of a structure maps each field's name to its value.         *)
(***************************************************************************)
None == [set |-> FALSE, v |-> JNull]
Some(x) == [set |-> TRUE, v |-> x]
Plain(x) == [set |-> TRUE, v |-> x]

\* Option::is_none
Option_is_none(fv) == ~fv.set

\* Expand::is_empty: whether the `expand` slice holds no field name
Expand_is_empty(fv) == Len(fv.v.a) = 0

\* the values held in memory that are not JSON shapes: the two variants of an
\* Expandable<T>, a nested structure, a List<T> and the Card variant of Source
ExpId(x) == [t |-> "Id", s |-> x, n |-> 0, o |-> NoFields, a |-> << >>]
ExpObject(dto) == [t |-> "Object", s |-> "", n |-> 0, o |-> dto, a |-> << >>]
Struct(dto) == [t |-> "struct", s |-> "", n |-> 0, o |-> dto, a |-> << >>]
ListOf(items, more) ==
    [t |-> "List", s |-> "", n |-> IF more THEN 1 ELSE 0, o |-> NoFields, a |-> items]
SourceCard(dto) == [t |-> "Card", s |-> "", n |-> 0, o |-> dto, a |-> << >>]
\* a value of a two-variant parameter enumeration: the variant's name and
\* the value the variant holds
Variant(name, inner) ==
    [t |-> "variant", s |-> name, n |-> 0, o |-> NoFields, a |-> << inner >>]

(***************************************************************************)
(* The parameter structures: per field, its name, its key on the wire      *)
(* (serde rename), its skip_serializing_if attribute ("" when it has none) *)
(* whether it is an Option, and its type.                                  *)
(***************************************************************************)
F(name, key, skip, opt, ty) ==
    [name |-> name, key |-> key, skip |-> skip, opt |-> opt, ty |-> ty]
\* #[serde(skip_serializing_if = "Option::is_none")] pub name: Option<ty>
Opt(name, ty) == F(name, name, "Option::is_none", TRUE, ty)
\* #[serde(skip_serializing_if = "Expand::is_empty")] pub name: &'a [&'a str]
Exp(name) == F(name, name, "Expand::is_empty", FALSE, "&[&str]")
\* pub name: ty
Req(name, ty) == F(name, name, "", FALSE, ty)

CreateRefund ==
    << Opt("amount", "i64"), Opt("charge", "ChargeId"), Exp("expand"),
       Opt("metadata", "Metadata"), Opt("reason", "RefundReason"),
       Opt("refund_application_fee", "bool"), Opt("reverse_transfer", "bool") >>

ListRefunds ==
    << Opt("charge", "ChargeId"), Opt("created", "RangeQuery"),
       Opt("ending_before", "RefundId"), Exp("expand"), Opt("limit", "u64"),
       Opt("starting_after", "RefundId") >>

\* UpdateRefund with the skip_serializing_if attribute of `metadata` left out
UpdateRefund_NoSkip ==
    << Exp("expand"), F("metadata", "metadata", "", TRUE, "Metadata") >>

\* UpdateRefund with the `reason` field of CreateRefund
UpdateRefund_WithReason ==
    << Exp("expand"), Opt("metadata", "Metadata"), Opt("reason", "RefundReason") >>

UpdateRefund ==
    << Exp("expand"), Opt("metadata", "Metadata") >>

\* the Expand structure Refund::retrieve builds from its `expand` argument
Expand ==
    << Exp("expand") >>

CancelParams ==
    << Opt("at_period_end", "bool") >>

ItemParams ==
    << Req("plan", "&str"), Opt("quantity", "u64") >>

SubscriptionParams ==
    << Opt("customer", "&str"), Opt("application_fee_percent", "f64"),
       Opt("coupon", "&str"), Opt("items", "Vec<ItemParams>"),
       Opt("metadata", "Metadata"), Opt("plan", "&str"), Opt("prorate", "bool"),
       Opt("proration_date", "Timestamp"), Opt("quantity", "u64"),
       Opt("source", "&str"), Opt("tax_percent", "f64"),
       Opt("trial_end", "TrialEnd"), Opt("trial_period_days", "u64") >>

SubscriptionListParams ==
    << Opt("billing", "SubscriptionBilling"), Opt("created", "RangeQuery"),
       Opt("current_period_end", "RangeQuery"),
       Opt("current_period_start", "RangeQuery"), Opt("customer", "CustomerId"),
       Opt("ending_before", "SubscriptionId"), Exp("expand"), Opt("limit", "u64"),
       Opt("plan", "PlanId"), Opt("starting_after", "SubscriptionId"),
       Opt("status", "SubscriptionStatusFilter") >>

CustomerParams ==
    << Opt("account_balance", "i64"), Opt("business_vat_id", "&str"),
       Opt("coupon", "&str"), Opt("description", "&str"), Opt("email", "&str"),
       Opt("metadata", "Metadata"), Opt("shipping", "CustomerShippingDetails"),
       Opt("source", "CustomerSource") >>

\* the two-variant parameter enumerations, #[serde(untagged)]: per variant,
\* its name and the type of the value it holds
TrialEnd ==
    << [name |-> "Timestamp", ty |-> "Timestamp"], [name |-> "Special", ty |-> "&str"] >>

CustomerSource ==
    << [name |-> "Token", ty |-> "&str"], [name |-> "Card", ty |-> "CardParams"] >>

OwnerParams ==
    << Opt("address", "Address"), Opt("email", "&str"), Opt("name", "&str"),
       Opt("phone", "&str") >>

RedirectParams ==
    << Req("return_url", "&str") >>

\* SourceParams with the rename attribute of `source_type` left out
SourceParams_NoRename ==
    << Opt("source_type", "&str"), Opt("amount", "u64"),
       Opt("currency", "&str"), Opt("flow", "&str"), Opt("metadata", "Metadata"),
       Opt("owner", "OwnerParams"), Opt("redirect", "RedirectParams"),
       Opt("token", "&str"), Opt("usage", "&str") >>

SourceParams ==
    << F("source_type", "type", "Option::is_none", TRUE, "&str"), Opt("amount", "u64"),
       Opt("currency", "&str"), Opt("flow", "&str"), Opt("metadata", "Metadata"),
       Opt("owner", "OwnerParams"), Opt("redirect", "RedirectParams"),
       Opt("token", "&str"), Opt("usage", "&str") >>

(***************************************************************************)
(* The resource DTOs, field by field as the parameter structures above.    *)
(* Customer derives Deserialize only: its Option fields carry no           *)
(* skip_serializing_if attribute.                                          *)
(***************************************************************************)
OptD(name, ty) == F(name, name, "", TRUE, ty)

\* Refund with `charge` declared as the bare identifier
Refund_ChargeIsId ==
    << Req("id", "RefundId"), Req("amount", "i64"),
       Opt("balance_transaction", "Expandable<BalanceTransaction>"),
       Opt("charge", "ChargeId"), Req("created", "Timestamp"),
       Req("currency", "Currency"), Opt("description", "String"),
       Opt("failure_balance_transaction", "Expandable<BalanceTransaction>"),
       Opt("failure_reason", "String"), Req("metadata", "Metadata"),
       Opt("reason", "String"), Opt("receipt_number", "String"),
       Opt("source_transfer_reversal", "Expandable<TransferReversal>"),
       Opt("status", "String"),
       Opt("transfer_reversal", "Expandable<TransferReversal>") >>

Refund ==
    << Req("id", "RefundId"), Req("amount", "i64"),
       Opt("balance_transaction", "Expandable<BalanceTransaction>"),
       Opt("charge", "Expandable<Charge>"), Req("created", "Timestamp"),
       Req("currency", "Currency"), Opt("description", "String"),
       Opt("failure_balance_transaction", "Expandable<BalanceTransaction>"),
       Opt("failure_reason", "String"), Req("metadata", "Metadata"),
       Opt("reason", "String"), Opt("receipt_number", "String"),
       Opt("source_transfer_reversal", "Expandable<TransferReversal>"),
       Opt("status", "String"),
       Opt("transfer_reversal", "Expandable<TransferReversal>") >>

Subscription ==
    << Req("id", "SubscriptionId"), Opt("application_fee_percent", "f64"),
       Req("billing", "SubscriptionBilling"), Req("billing_cycle_anchor", "Timestamp"),
       Opt("billing_thresholds", "SubscriptionBillingThresholds"),
       Req("cancel_at_period_end", "bool"), Opt("canceled_at", "Timestamp"),
       Req("created", "Timestamp"), Req("current_period_end", "Timestamp"),
       Req("current_period_start", "Timestamp"),
       Req("customer", "Expandable<Customer>"), Opt("days_until_due", "u32"),
       Opt("default_payment_method", "Expandable<PaymentMethod>"),
       Opt("default_source", "PaymentSource"),
       Opt("default_tax_rates", "Vec<TaxRate>"), Opt("discount", "Discount"),
       Opt("ended_at", "Timestamp"), Req("items", "List<SubscriptionItem>"),
       Opt("latest_invoice", "Expandable<Invoice>"), Req("livemode", "bool"),
       Req("metadata", "Metadata"), Opt("plan", "Plan"), Opt("quantity", "u64"),
       Opt("start", "Timestamp"), Opt("start_date", "Timestamp"),
       Req("status", "SubscriptionStatus"), Opt("tax_percent", "f64"),
       Opt("trial_end", "Timestamp"), Opt("trial_start", "Timestamp") >>

CustomerShippingDetails ==
    << Req("address", "Address"), Req("name", "String"), Req("phone", "String") >>

Customer ==
    << Req("id", "String"), Req("account_balance", "i64"),
       OptD("business_vat_id", "String"), Req("created", "u64"),
       Req("currency", "String"), Req("default_source", "String"),
       Req("delinquent", "bool"), OptD("desc", "String"),
       OptD("discount", "Discount"), Req("email", "String"),
       Req("livemode", "bool"), Req("metadata", "Metadata"),
       OptD("shipping", "CustomerShippingDetails"), Req("sources", "List<Source>"),
       Req("subscriptions", "List<Subscription>") >>

\* MerchantData with the skip_serializing_if attribute of `name` left out
MerchantData_NoSkip ==
    << Req("network_id", "String"), Req("category", "MerchantCategory"),
       OptD("name", "String"), Opt("city", "String"), Opt("state", "String"),
       Opt("country", "String"), Opt("postal_code", "String") >>

MerchantData ==
    << Req("network_id", "String"), Req("category", "MerchantCategory"),
       Opt("name", "String"), Opt("city", "String"), Opt("state", "String"),
       Opt("country", "String"), Opt("postal_code", "String") >>

\* A structure this model holds no definition of (Charge, BalanceTransaction,
\* Invoice, Card, ...): a resource with its own identifier
Foreign ==
    << Req("id", "String") >>

\* the fields of the structure called ty
Table(ty) ==
    CASE ty = "Refund" -> Refund
      [] ty = "Subscription" -> Subscription
      [] ty = "Customer" -> Customer
      [] ty = "CustomerShippingDetails" -> CustomerShippingDetails
      [] ty = "MerchantData" -> MerchantData
      [] OTHER -> Foreign

(***************************************************************************)
(* The types of the fields, by the shape of their values.                  *)
(***************************************************************************)
StringTypes ==
    {"String", "&str", "RefundId", "ChargeId", "SubscriptionId", "CustomerId",
     "PlanId", "Currency"}
NumberTypes == {"i64", "u64", "u32", "f64", "Timestamp"}
ExpandableTypes ==
    {"Expandable<BalanceTransaction>", "Expandable<Charge>",
     "Expandable<TransferReversal>", "Expandable<Customer>",
     "Expandable<PaymentMethod>", "Expandable<Invoice>"}
ListTypes ==
    {"List<Refund>", "List<Subscription>", "List<Source>", "List<SubscriptionItem>"}
VecTypes == {"Vec<TaxRate>"}

\* T of Expandable<T>, List<T> and Vec<T>
Target(ty) ==
    CASE ty = "Expandable<BalanceTransaction>" -> "BalanceTransaction"
      [] ty = "Expandable<Charge>" -> "Charge"
      [] ty = "Expandable<TransferReversal>" -> "TransferReversal"
      [] ty = "Expandable<Customer>" -> "Customer"
      [] ty = "Expandable<PaymentMethod>" -> "PaymentMethod"
      [] ty = "Expandable<Invoice>" -> "Invoice"
      [] ty = "List<Refund>" -> "Refund"
      [] ty = "List<Subscription>" -> "Subscription"
      [] ty = "List<Source>" -> "Source"
      [] ty = "List<SubscriptionItem>" -> "SubscriptionItem"
      [] ty = "Vec<TaxRate>" -> "TaxRate"
      [] OTHER -> ty

(***************************************************************************)
(* The closed enumerations.  A variant is its name, cut into the segments  *)
(* that start at its upper-case letters, and its serde rename attribute    *)
(* ("" when it has none).  Every enumeration carries                       *)
(* rename_all = "snake_case".                                              *)
(***************************************************************************)
\* a segment of a name: an upper-case letter and the characters up to the next
Seg(up, rest) == [up |-> up, rest |-> rest]
\* a variant, and a variant with #[serde(rename = "...")]
V(segs) == [segs |-> segs, rename |-> ""]
VR(segs, rename) == [segs |-> segs, rename |-> rename]

RefundReason ==
    << V(<< Seg("D", "uplicate") >>),
       V(<< Seg("F", "raudulent") >>),
       V(<< Seg("R", "equested"), Seg("B", "y"), Seg("C", "ustomer") >>) >>

SubscriptionBilling ==
    << V(<< Seg("C", "harge"), Seg("A", "utomatically") >>),
       V(<< Seg("S", "end"), Seg("I", "nvoice") >>) >>

SubscriptionStatus ==
    << V(<< Seg("A", "ctive") >>),
       V(<< Seg("C", "anceled") >>),
       V(<< Seg("I", "ncomplete") >>),
       V(<< Seg("I", "ncomplete"), Seg("E", "xpired") >>),
       V(<< Seg("P", "ast"), Seg("D", "ue") >>),
       V(<< Seg("T", "rialing") >>),
       V(<< Seg("U", "npaid") >>) >>

SubscriptionStatusFilter ==
    << V(<< Seg("A", "ctive") >>),
       V(<< Seg("A", "ll") >>),
       V(<< Seg("C", "anceled") >>),
       V(<< Seg("E", "nded") >>),
       V(<< Seg("I", "ncomplete") >>),
       V(<< Seg("I", "ncomplete"), Seg("E", "xpired") >>),
       V(<< Seg("P", "ast"), Seg("D", "ue") >>),
       V(<< Seg("T", "rialing") >>),
       V(<< Seg("U", "npaid") >>) >>

MerchantCategory ==
    << V(<< Seg("A", "c"), Seg("R", "efrigeration"), Seg("R", "epair") >>),
       V(<< Seg("A", "ccounting"), Seg("B", "ookkeeping"), Seg("S", "ervices") >>),
       V(<< Seg("A", "dvertising"), Seg("S", "ervices") >>),
       V(<< Seg("A", "gricultural"), Seg("C", "ooperative") >>),
       V(<< Seg("A", "irlines"), Seg("A", "ir"), Seg("C", "arriers") >>),
       V(<< Seg("A", "irports"), Seg("F", "lying"), Seg("F", "ields") >>),
       V(<< Seg("A", "mbulance"), Seg("S", "ervices") >>),
       V(<< Seg("A", "musement"), Seg("P", "arks"), Seg("C", "arnivals") >>),
       V(<< Seg("A", "ntique"), Seg("R", "eproductions") >>),
       V(<< Seg("A", "ntique"), Seg("S", "hops") >>),
       V(<< Seg("A", "quariums") >>),
       V(<< Seg("A", "rchitectural"), Seg("S", "urveying"), Seg("S", "ervices") >>),
       V(<< Seg("A", "rt"), Seg("D", "ealers"), Seg("A", "nd"), Seg("G", "alleries") >>),
       V(<< Seg("A", "rtists"), Seg("S", "upply"), Seg("A", "nd"), Seg("C", "raft"), Seg("S", "hops") >>),
       V(<< Seg("A", "uto"), Seg("A", "nd"), Seg("H", "ome"), Seg("S", "upply"), Seg("S", "tores") >>),
       V(<< Seg("A", "uto"), Seg("B", "ody"), Seg("R", "epair"), Seg("S", "hops") >>),
       V(<< Seg("A", "uto"), Seg("P", "aint"), Seg("S", "hops") >>),
       V(<< Seg("A", "uto"), Seg("S", "ervice"), Seg("S", "hops") >>),
       V(<< Seg("A", "utomated"), Seg("C", "ash"), Seg("D", "isburse") >>),
       V(<< Seg("A", "utomated"), Seg("F", "uel"), Seg("D", "ispensers") >>),
       V(<< Seg("A", "utomobile"), Seg("A", "ssociations") >>),
       V(<< Seg("A", "utomotive"), Seg("P", "arts"), Seg("A", "nd"), Seg("A", "ccessories"), Seg("S", "tores") >>),
       V(<< Seg("A", "utomotive"), Seg("T", "ire"), Seg("S", "tores") >>),
       V(<< Seg("B", "ail"), Seg("A", "nd"), Seg("B", "ond"), Seg("P", "ayments") >>),
       V(<< Seg("B", "akeries") >>),
       V(<< Seg("B", "ands"), Seg("O", "rchestras") >>),
       V(<< Seg("B", "arber"), Seg("A", "nd"), Seg("B", "eauty"), Seg("S", "hops") >>),
       V(<< Seg("B", "etting"), Seg("C", "asino"), Seg("G", "ambling") >>),
       V(<< Seg("B", "icycle"), Seg("S", "hops") >>),
       V(<< Seg("B", "illiard"), Seg("P", "ool"), Seg("E", "stablishments") >>),
       V(<< Seg("B", "oat"), Seg("D", "ealers") >>),
       V(<< Seg("B", "oat"), Seg("R", "entals"), Seg("A", "nd"), Seg("L", "eases") >>),
       V(<< Seg("B", "ook"), Seg("S", "tores") >>),
       V(<< Seg("B", "ooks"), Seg("P", "eriodicals"), Seg("A", "nd"), Seg("N", "ewspapers") >>),
       V(<< Seg("B", "owling"), Seg("A", "lleys") >>),
       V(<< Seg("B", "us"), Seg("L", "ines") >>),
       V(<< Seg("B", "usiness"), Seg("S", "ecretarial"), Seg("S", "chools") >>),
       V(<< Seg("B", "uying"), Seg("S", "hopping"), Seg("S", "ervices") >>),
       V(<< Seg("C", "able"), Seg("S", "atellite"), Seg("A", "nd"), Seg("O", "ther"), Seg("P", "ay"), Seg("T", "elevision"), Seg("A", "nd"), Seg("R", "adio") >>),
       V(<< Seg("C", "amera"), Seg("A", "nd"), Seg("P", "hotographic"), Seg("S", "upply"), Seg("S", "tores") >>),
       V(<< Seg("C", "andy"), Seg("N", "ut"), Seg("A", "nd"), Seg("C", "onfectionery"), Seg("S", "tores") >>),
       V(<< Seg("C", "ar"), Seg("A", "nd"), Seg("T", "ruck"), Seg("D", "ealers"), Seg("N", "ew"), Seg("U", "sed") >>),
       V(<< Seg("C", "ar"), Seg("A", "nd"), Seg("T", "ruck"), Seg("D", "ealers"), Seg("U", "sed"), Seg("O", "nly") >>),
       V(<< Seg("C", "ar"), Seg("R", "ental"), Seg("A", "gencies") >>),
       V(<< Seg("C", "ar"), Seg("W", "ashes") >>),
       V(<< Seg("C", "arpentry"), Seg("S", "ervices") >>),
       V(<< Seg("C", "arpet"), Seg("U", "pholstery"), Seg("C", "leaning") >>),
       V(<< Seg("C", "aterers") >>),
       V(<< Seg("C", "haritable"), Seg("A", "nd"), Seg("S", "ocial"), Seg("S", "ervice"), Seg("O", "rganizations"), Seg("F", "undraising") >>),
       V(<< Seg("C", "hemicals"), Seg("A", "nd"), Seg("A", "llied"), Seg("P", "roducts") >>),
       V(<< Seg("C", "hidrens"), Seg("A", "nd"), Seg("I", "nfants"), Seg("W", "ear"), Seg("S", "tores") >>),
       V(<< Seg("C", "hild"), Seg("C", "are"), Seg("S", "ervices") >>),
       V(<< Seg("C", "hiropodists"), Seg("P", "odiatrists") >>),
       V(<< Seg("C", "hiropractors") >>),
       V(<< Seg("C", "igar"), Seg("S", "tores"), Seg("A", "nd"), Seg("S", "tands") >>),
       V(<< Seg("C", "ivic"), Seg("S", "ocial"), Seg("F", "raternal"), Seg("A", "ssociations") >>),
       V(<< Seg("C", "leaning"), Seg("A", "nd"), Seg("M", "aintenance") >>),
       V(<< Seg("C", "lothing"), Seg("R", "ental") >>),
       V(<< Seg("C", "olleges"), Seg("U", "niversities") >>),
       V(<< Seg("C", "ommercial"), Seg("E", "quipment") >>),
       V(<< Seg("C", "ommercial"), Seg("F", "ootwear") >>),
       V(<< Seg("C", "ommercial"), Seg("P", "hotography"), Seg("A", "rt"), Seg("A", "nd"), Seg("G", "raphics") >>),
       V(<< Seg("C", "ommuter"), Seg("T", "ransport"), Seg("A", "nd"), Seg("F", "erries") >>),
       V(<< Seg("C", "omputer"), Seg("N", "etwork"), Seg("S", "ervices") >>),
       V(<< Seg("C", "omputer"), Seg("P", "rogramming") >>),
       V(<< Seg("C", "omputer"), Seg("R", "epair") >>),
       V(<< Seg("C", "omputer"), Seg("S", "oftware"), Seg("S", "tores") >>),
       V(<< Seg("C", "omputers"), Seg("P", "eripherals"), Seg("A", "nd"), Seg("S", "oftware") >>),
       V(<< Seg("C", "oncrete"), Seg("W", "ork"), Seg("S", "ervices") >>),
       V(<< Seg("C", "onstruction"), Seg("M", "aterials") >>),
       V(<< Seg("C", "onsulting"), Seg("P", "ublic"), Seg("R", "elations") >>),
       V(<< Seg("C", "orrespondence"), Seg("S", "chools") >>),
       V(<< Seg("C", "osmetic"), Seg("S", "tores") >>),
       V(<< Seg("C", "ounseling"), Seg("S", "ervices") >>),
       V(<< Seg("C", "ountry"), Seg("C", "lubs") >>),
       V(<< Seg("C", "ourier"), Seg("S", "ervices") >>),
       V(<< Seg("C", "ourt"), Seg("C", "osts") >>),
       V(<< Seg("C", "redit"), Seg("R", "eporting"), Seg("A", "gencies") >>),
       V(<< Seg("C", "ruise"), Seg("L", "ines") >>),
       V(<< Seg("D", "airy"), Seg("P", "roducts"), Seg("S", "tores") >>),
       V(<< Seg("D", "ance"), Seg("H", "all"), Seg("S", "tudios"), Seg("S", "chools") >>),
       V(<< Seg("D", "ating"), Seg("E", "scort"), Seg("S", "ervices") >>),
       V(<< Seg("D", "entists"), Seg("O", "rthodontists") >>),
       V(<< Seg("D", "epartment"), Seg("S", "tores") >>),
       V(<< Seg("D", "etective"), Seg("A", "gencies") >>),
       V(<< Seg("D", "irect"), Seg("M", "arketing"), Seg("C", "atalog"), Seg("M", "erchant") >>),
       V(<< Seg("D", "irect"), Seg("M", "arketing"), Seg("C", "ombination"), Seg("C", "atalog"), Seg("A", "nd"), Seg("R", "etail"), Seg("M", "erchant") >>),
       V(<< Seg("D", "irect"), Seg("M", "arketing"), Seg("I", "nbound"), Seg("T", "elemarketing") >>),
       V(<< Seg("D", "irect"), Seg("M", "arketing"), Seg("I", "nsurance"), Seg("S", "ervices") >>),
       V(<< Seg("D", "irect"), Seg("M", "arketing"), Seg("O", "ther") >>),
       V(<< Seg("D", "irect"), Seg("M", "arketing"), Seg("O", "utbound"), Seg("T", "elemarketing") >>),
       V(<< Seg("D", "irect"), Seg("M", "arketing"), Seg("S", "ubscription") >>),
       V(<< Seg("D", "irect"), Seg("M", "arketing"), Seg("T", "ravel") >>),
       V(<< Seg("D", "iscount"), Seg("S", "tores") >>),
       V(<< Seg("D", "octors") >>),
       V(<< Seg("D", "oor"), Seg("T", "o"), Seg("D", "oor"), Seg("S", "ales") >>),
       V(<< Seg("D", "rapery"), Seg("W", "indow"), Seg("C", "overing"), Seg("A", "nd"), Seg("U", "pholstery"), Seg("S", "tores") >>),
       V(<< Seg("D", "rinking"), Seg("P", "laces") >>),
       V(<< Seg("D", "rug"), Seg("S", "tores"), Seg("A", "nd"), Seg("P", "harmacies") >>),
       V(<< Seg("D", "rugs"), Seg("D", "rug"), Seg("P", "roprietaries"), Seg("A", "nd"), Seg("D", "ruggist"), Seg("S", "undries") >>),
       V(<< Seg("D", "ry"), Seg("C", "leaners") >>),
       V(<< Seg("D", "urable"), Seg("G", "oods") >>),
       V(<< Seg("D", "uty"), Seg("F", "ree"), Seg("S", "tores") >>),
       V(<< Seg("E", "ating"), Seg("P", "laces"), Seg("R", "estaurants") >>),
       V(<< Seg("E", "ducational"), Seg("S", "ervices") >>),
       V(<< Seg("E", "lectric"), Seg("R", "azor"), Seg("S", "tores") >>),
       V(<< Seg("E", "lectrical"), Seg("P", "arts"), Seg("A", "nd"), Seg("E", "quipment") >>),
       V(<< Seg("E", "lectrical"), Seg("S", "ervices") >>),
       V(<< Seg("E", "lectronics"), Seg("R", "epair"), Seg("S", "hops") >>),
       V(<< Seg("E", "lectronics"), Seg("S", "tores") >>),
       V(<< Seg("E", "lementary"), Seg("S", "econdary"), Seg("S", "chools") >>),
       V(<< Seg("E", "mployment"), Seg("T", "emp"), Seg("A", "gencies") >>),
       V(<< Seg("E", "quipment"), Seg("R", "ental") >>),
       V(<< Seg("E", "xterminating"), Seg("S", "ervices") >>),
       V(<< Seg("F", "amily"), Seg("C", "lothing"), Seg("S", "tores") >>),
       V(<< Seg("F", "ast"), Seg("F", "ood"), Seg("R", "estaurants") >>),
       V(<< Seg("F", "inancial"), Seg("I", "nstitutions") >>),
       V(<< Seg("F", "ines"), Seg("G", "overnment"), Seg("A", "dministrative"), Seg("E", "ntities") >>),
       V(<< Seg("F", "ireplace"), Seg("F", "ireplace"), Seg("S", "creens"), Seg("A", "nd"), Seg("A", "ccessories"), Seg("S", "tores") >>),
       V(<< Seg("F", "loor"), Seg("C", "overing"), Seg("S", "tores") >>),
       V(<< Seg("F", "lorists") >>),
       V(<< Seg("F", "lorists"), Seg("S", "upplies"), Seg("N", "ursery"), Seg("S", "tock"), Seg("A", "nd"), Seg("F", "lowers") >>),
       V(<< Seg("F", "reezer"), Seg("A", "nd"), Seg("L", "ocker"), Seg("M", "eat"), Seg("P", "rovisioners") >>),
       V(<< Seg("F", "uel"), Seg("D", "ealers"), Seg("N", "on"), Seg("A", "utomotive") >>),
       V(<< Seg("F", "uneral"), Seg("S", "ervices"), Seg("C", "rematories") >>),
       V(<< Seg("F", "urniture"), Seg("H", "ome"), Seg("F", "urnishings"), Seg("A", "nd"), Seg("E", "quipment"), Seg("S", "tores"), Seg("E", "xcept"), Seg("A", "ppliances") >>),
       V(<< Seg("F", "urniture"), Seg("R", "epair"), Seg("R", "efinishing") >>),
       V(<< Seg("F", "urriers"), Seg("A", "nd"), Seg("F", "ur"), Seg("S", "hops") >>),
       V(<< Seg("G", "eneral"), Seg("S", "ervices") >>),
       V(<< Seg("G", "ift"), Seg("C", "ard"), Seg("N", "ovelty"), Seg("A", "nd"), Seg("S", "ouvenir"), Seg("S", "hops") >>),
       V(<< Seg("G", "lass"), Seg("P", "aint"), Seg("A", "nd"), Seg("W", "allpaper"), Seg("S", "tores") >>),
       V(<< Seg("G", "lassware"), Seg("C", "rystal"), Seg("S", "tores") >>),
       V(<< Seg("G", "olf"), Seg("C", "ourses"), Seg("P", "ublic") >>),
       V(<< Seg("G", "overnment"), Seg("S", "ervices") >>),
       V(<< Seg("G", "rocery"), Seg("S", "tores"), Seg("S", "upermarkets") >>),
       V(<< Seg("H", "ardware"), Seg("E", "quipment"), Seg("A", "nd"), Seg("S", "upplies") >>),
       V(<< Seg("H", "ardware"), Seg("S", "tores") >>),
       V(<< Seg("H", "ealth"), Seg("A", "nd"), Seg("B", "eauty"), Seg("S", "pas") >>),
       V(<< Seg("H", "earing"), Seg("A", "ids"), Seg("S", "ales"), Seg("A", "nd"), Seg("S", "upplies") >>),
       VR(<< Seg("H", "eating"), Seg("P", "lumbing"), Seg("A", ""), Seg("C", "") >>, "heating_plumbing_a_c"),
       V(<< Seg("H", "obby"), Seg("T", "oy"), Seg("A", "nd"), Seg("G", "ame"), Seg("S", "hops") >>),
       V(<< Seg("H", "ome"), Seg("S", "upply"), Seg("W", "arehouse"), Seg("S", "tores") >>),
       V(<< Seg("H", "ospitals") >>),
       V(<< Seg("H", "otels"), Seg("M", "otels"), Seg("A", "nd"), Seg("R", "esorts") >>),
       V(<< Seg("H", "ousehold"), Seg("A", "ppliance"), Seg("S", "tores") >>),
       V(<< Seg("I", "ndustrial"), Seg("S", "upplies") >>),
       V(<< Seg("I", "nformation"), Seg("R", "etrieval"), Seg("S", "ervices") >>),
       V(<< Seg("I", "nsurance"), Seg("D", "efault") >>),
       V(<< Seg("I", "nsurance"), Seg("U", "nderwriting"), Seg("P", "remiums") >>),
       V(<< Seg("I", "ntra"), Seg("C", "ompany"), Seg("P", "urchases") >>),
       V(<< Seg("J", "ewelry"), Seg("S", "tores"), Seg("W", "atches"), Seg("C", "locks"), Seg("A", "nd"), Seg("S", "ilverware"), Seg("S", "tores") >>),
       V(<< Seg("L", "andscaping"), Seg("S", "ervices") >>),
       V(<< Seg("L", "aundries") >>),
       V(<< Seg("L", "aundry"), Seg("C", "leaning"), Seg("S", "ervices") >>),
       V(<< Seg("L", "egal"), Seg("S", "ervices"), Seg("A", "ttorneys") >>),
       V(<< Seg("L", "uggage"), Seg("A", "nd"), Seg("L", "eather"), Seg("G", "oods"), Seg("S", "tores") >>),
       V(<< Seg("L", "umber"), Seg("B", "uilding"), Seg("M", "aterials"), Seg("S", "tores") >>),
       V(<< Seg("M", "anual"), Seg("C", "ash"), Seg("D", "isburse") >>),
       V(<< Seg("M", "arinas"), Seg("S", "ervice"), Seg("A", "nd"), Seg("S", "upplies") >>),
       V(<< Seg("M", "asonry"), Seg("S", "tonework"), Seg("A", "nd"), Seg("P", "laster") >>),
       V(<< Seg("M", "assage"), Seg("P", "arlors") >>),
       V(<< Seg("M", "edical"), Seg("A", "nd"), Seg("D", "ental"), Seg("L", "abs") >>),
       V(<< Seg("M", "edical"), Seg("D", "ental"), Seg("O", "phthalmic"), Seg("A", "nd"), Seg("H", "ospital"), Seg("E", "quipment"), Seg("A", "nd"), Seg("S", "upplies") >>),
       V(<< Seg("M", "edical"), Seg("S", "ervices") >>),
       V(<< Seg("M", "embership"), Seg("O", "rganizations") >>),
       V(<< Seg("M", "ens"), Seg("A", "nd"), Seg("B", "oys"), Seg("C", "lothing"), Seg("A", "nd"), Seg("A", "ccessories"), Seg("S", "tores") >>),
       V(<< Seg("M", "ens"), Seg("W", "omens"), Seg("C", "lothing"), Seg("S", "tores") >>),
       V(<< Seg("M", "etal"), Seg("S", "ervice"), Seg("C", "enters") >>),
       V(<< Seg("M", "iscellaneous") >>),
       V(<< Seg("M", "iscellaneous"), Seg("A", "pparel"), Seg("A", "nd"), Seg("A", "ccessory"), Seg("S", "hops") >>),
       V(<< Seg("M", "iscellaneous"), Seg("A", "uto"), Seg("D", "ealers") >>),
       V(<< Seg("M", "iscellaneous"), Seg("B", "usiness"), Seg("S", "ervices") >>),
       V(<< Seg("M", "iscellaneous"), Seg("F", "ood"), Seg("S", "tores") >>),
       V(<< Seg("M", "iscellaneous"), Seg("G", "eneral"), Seg("M", "erchandise") >>),
       V(<< Seg("M", "iscellaneous"), Seg("G", "eneral"), Seg("S", "ervices") >>),
       V(<< Seg("M", "iscellaneous"), Seg("H", "ome"), Seg("F", "urnishing"), Seg("S", "pecialty"), Seg("S", "tores") >>),
       V(<< Seg("M", "iscellaneous"), Seg("P", "ublishing"), Seg("A", "nd"), Seg("P", "rinting") >>),
       V(<< Seg("M", "iscellaneous"), Seg("R", "ecreation"), Seg("S", "ervices") >>),
       V(<< Seg("M", "iscellaneous"), Seg("R", "epair"), Seg("S", "hops") >>),
       V(<< Seg("M", "iscellaneous"), Seg("S", "pecialty"), Seg("R", "etail") >>),
       V(<< Seg("M", "obile"), Seg("H", "ome"), Seg("D", "ealers") >>),
       V(<< Seg("M", "otion"), Seg("P", "icture"), Seg("T", "heaters") >>),
       V(<< Seg("M", "otor"), Seg("F", "reight"), Seg("C", "arriers"), Seg("A", "nd"), Seg("T", "rucking") >>),
       V(<< Seg("M", "otor"), Seg("H", "omes"), Seg("D", "ealers") >>),
       V(<< Seg("M", "otor"), Seg("V", "ehicle"), Seg("S", "upplies"), Seg("A", "nd"), Seg("N", "ew"), Seg("P", "arts") >>),
       V(<< Seg("M", "otorcycle"), Seg("S", "hops"), Seg("A", "nd"), Seg("D", "ealers") >>),
       V(<< Seg("M", "otorcycle"), Seg("S", "hops"), Seg("D", "ealers") >>),
       V(<< Seg("M", "usic"), Seg("S", "tores"), Seg("M", "usical"), Seg("I", "nstruments"), Seg("P", "ianos"), Seg("A", "nd"), Seg("S", "heet"), Seg("M", "usic") >>),
       V(<< Seg("N", "ews"), Seg("D", "ealers"), Seg("A", "nd"), Seg("N", "ewsstands") >>),
       V(<< Seg("N", "on"), Seg("F", "i"), Seg("M", "oney"), Seg("O", "rders") >>),
       V(<< Seg("N", "on"), Seg("F", "i"), Seg("S", "tored"), Seg("V", "alue"), Seg("C", "ard"), Seg("P", "urchase"), Seg("L", "oad") >>),
       V(<< Seg("N", "ondurable"), Seg("G", "oods") >>),
       V(<< Seg("N", "urseries"), Seg("L", "awn"), Seg("A", "nd"), Seg("G", "arden"), Seg("S", "upply"), Seg("S", "tores") >>),
       V(<< Seg("N", "ursing"), Seg("P", "ersonal"), Seg("C", "are") >>),
       V(<< Seg("O", "ffice"), Seg("A", "nd"), Seg("C", "ommercial"), Seg("F", "urniture") >>),
       V(<< Seg("O", "pticians"), Seg("E", "yeglasses") >>),
       V(<< Seg("O", "ptometrists"), Seg("O", "phthalmologist") >>),
       V(<< Seg("O", "rthopedic"), Seg("G", "oods"), Seg("P", "rosthetic"), Seg("D", "evices") >>),
       V(<< Seg("O", "steopaths") >>),
       V(<< Seg("P", "ackage"), Seg("S", "tores"), Seg("B", "eer"), Seg("W", "ine"), Seg("A", "nd"), Seg("L", "iquor") >>),
       V(<< Seg("P", "aints"), Seg("V", "arnishes"), Seg("A", "nd"), Seg("S", "upplies") >>),
       V(<< Seg("P", "arking"), Seg("L", "ots"), Seg("G", "arages") >>),
       V(<< Seg("P", "assenger"), Seg("R", "ailways") >>),
       V(<< Seg("P", "awn"), Seg("S", "hops") >>),
       V(<< Seg("P", "et"), Seg("S", "hops"), Seg("P", "et"), Seg("F", "ood"), Seg("A", "nd"), Seg("S", "upplies") >>),
       V(<< Seg("P", "etroleum"), Seg("A", "nd"), Seg("P", "etroleum"), Seg("P", "roducts") >>),
       V(<< Seg("P", "hoto"), Seg("D", "eveloping") >>),
       V(<< Seg("P", "hotographic"), Seg("P", "hotocopy"), Seg("M", "icrofilm"), Seg("E", "quipment"), Seg("A", "nd"), Seg("S", "upplies") >>),
       V(<< Seg("P", "hotographic"), Seg("S", "tudios") >>),
       V(<< Seg("P", "icture"), Seg("V", "ideo"), Seg("P", "roduction") >>),
       V(<< Seg("P", "iece"), Seg("G", "oods"), Seg("N", "otions"), Seg("A", "nd"), Seg("O", "ther"), Seg("D", "ry"), Seg("G", "oods") >>),
       V(<< Seg("P", "lumbing"), Seg("H", "eating"), Seg("E", "quipment"), Seg("A", "nd"), Seg("S", "upplies") >>),
       V(<< Seg("P", "olitical"), Seg("O", "rganizations") >>),
       V(<< Seg("P", "ostal"), Seg("S", "ervices"), Seg("G", "overnment"), Seg("O", "nly") >>),
       V(<< Seg("P", "recious"), Seg("S", "tones"), Seg("A", "nd"), Seg("M", "etals"), Seg("W", "atches"), Seg("A", "nd"), Seg("J", "ewelry") >>),
       V(<< Seg("P", "rofessional"), Seg("S", "ervices") >>),
       V(<< Seg("P", "ublic"), Seg("W", "arehousing"), Seg("A", "nd"), Seg("S", "torage") >>),
       V(<< Seg("Q", "uick"), Seg("C", "opy"), Seg("R", "epro"), Seg("A", "nd"), Seg("B", "lueprint") >>),
       V(<< Seg("R", "ailroads") >>),
       V(<< Seg("R", "eal"), Seg("E", "state"), Seg("A", "gents"), Seg("A", "nd"), Seg("M", "anagers"), Seg("R", "entals") >>),
       V(<< Seg("R", "ecord"), Seg("S", "tores") >>),
       V(<< Seg("R", "ecreational"), Seg("V", "ehicle"), Seg("R", "entals") >>),
       V(<< Seg("R", "eligious"), Seg("G", "oods"), Seg("S", "tores") >>),
       V(<< Seg("R", "eligious"), Seg("O", "rganizations") >>),
       V(<< Seg("R", "oofing"), Seg("S", "iding"), Seg("S", "heet"), Seg("M", "etal") >>),
       V(<< Seg("S", "ecretarial"), Seg("S", "upport"), Seg("S", "ervices") >>),
       V(<< Seg("S", "ecurity"), Seg("B", "rokers"), Seg("D", "ealers") >>),
       V(<< Seg("S", "ervice"), Seg("S", "tations") >>),
       V(<< Seg("S", "ewing"), Seg("N", "eedlework"), Seg("F", "abric"), Seg("A", "nd"), Seg("P", "iece"), Seg("G", "oods"), Seg("S", "tores") >>),
       V(<< Seg("S", "hoe"), Seg("R", "epair"), Seg("H", "at"), Seg("C", "leaning") >>),
       V(<< Seg("S", "hoe"), Seg("S", "tores") >>),
       V(<< Seg("S", "mall"), Seg("A", "ppliance"), Seg("R", "epair") >>),
       V(<< Seg("S", "nowmobile"), Seg("D", "ealers") >>),
       V(<< Seg("S", "pecial"), Seg("T", "rade"), Seg("S", "ervices") >>),
       V(<< Seg("S", "pecialty"), Seg("C", "leaning") >>),
       V(<< Seg("S", "porting"), Seg("G", "oods"), Seg("S", "tores") >>),
       V(<< Seg("S", "porting"), Seg("R", "ecreation"), Seg("C", "amps") >>),
       V(<< Seg("S", "ports"), Seg("A", "nd"), Seg("R", "iding"), Seg("A", "pparel"), Seg("S", "tores") >>),
       V(<< Seg("S", "ports"), Seg("C", "lubs"), Seg("F", "ields") >>),
       V(<< Seg("S", "tamp"), Seg("A", "nd"), Seg("C", "oin"), Seg("S", "tores") >>),
       V(<< Seg("S", "tationary"), Seg("O", "ffice"), Seg("S", "upplies"), Seg("P", "rinting"), Seg("A", "nd"), Seg("W", "riting"), Seg("P", "aper") >>),
       V(<< Seg("S", "tationery"), Seg("S", "tores"), Seg("O", "ffice"), Seg("A", "nd"), Seg("S", "chool"), Seg("S", "upply"), Seg("S", "tores") >>),
       V(<< Seg("S", "wimming"), Seg("P", "ools"), Seg("S", "ales") >>),
       V(<< Seg("T", ""), Seg("U", "i"), Seg("T", "ravel"), Seg("G", "ermany") >>),
       V(<< Seg("T", "ailors"), Seg("A", "lterations") >>),
       V(<< Seg("T", "ax"), Seg("P", "ayments"), Seg("G", "overnment"), Seg("A", "gencies") >>),
       V(<< Seg("T", "ax"), Seg("P", "reparation"), Seg("S", "ervices") >>),
       V(<< Seg("T", "axicabs"), Seg("L", "imousines") >>),
       V(<< Seg("T", "elecommunication"), Seg("E", "quipment"), Seg("A", "nd"), Seg("T", "elephone"), Seg("S", "ales") >>),
       V(<< Seg("T", "elecommunication"), Seg("S", "ervices") >>),
       V(<< Seg("T", "elegraph"), Seg("S", "ervices") >>),
       V(<< Seg("T", "ent"), Seg("A", "nd"), Seg("A", "wning"), Seg("S", "hops") >>),
       V(<< Seg("T", "esting"), Seg("L", "aboratories") >>),
       V(<< Seg("T", "heatrical"), Seg("T", "icket"), Seg("A", "gencies") >>),
       V(<< Seg("T", "imeshares") >>),
       V(<< Seg("T", "ire"), Seg("R", "etreading"), Seg("A", "nd"), Seg("R", "epair") >>),
       V(<< Seg("T", "olls"), Seg("B", "ridge"), Seg("F", "ees") >>),
       V(<< Seg("T", "ourist"), Seg("A", "ttractions"), Seg("A", "nd"), Seg("E", "xhibits") >>),
       V(<< Seg("T", "owing"), Seg("S", "ervices") >>),
       V(<< Seg("T", "railer"), Seg("P", "arks"), Seg("C", "ampgrounds") >>),
       V(<< Seg("T", "ransportation"), Seg("S", "ervices") >>),
       V(<< Seg("T", "ravel"), Seg("A", "gencies"), Seg("T", "our"), Seg("O", "perators") >>),
       V(<< Seg("T", "ruck"), Seg("S", "top"), Seg("I", "teration") >>),
       V(<< Seg("T", "ruck"), Seg("U", "tility"), Seg("T", "railer"), Seg("R", "entals") >>),
       V(<< Seg("T", "ypesetting"), Seg("P", "late"), Seg("M", "aking"), Seg("A", "nd"), Seg("R", "elated"), Seg("S", "ervices") >>),
       V(<< Seg("T", "ypewriter"), Seg("S", "tores") >>),
       VR(<< Seg("U", ""), Seg("S", ""), Seg("F", "ederal"), Seg("G", "overnment"), Seg("A", "gencies"), Seg("O", "r"), Seg("D", "epartments") >>, "u_s_federal_government_agencies_or_departments"),
       V(<< Seg("U", "niforms"), Seg("C", "ommercial"), Seg("C", "lothing") >>),
       V(<< Seg("U", "sed"), Seg("M", "erchandise"), Seg("A", "nd"), Seg("S", "econdhand"), Seg("S", "tores") >>),
       V(<< Seg("U", "tilities") >>),
       V(<< Seg("V", "ariety"), Seg("S", "tores") >>),
       V(<< Seg("V", "eterinary"), Seg("S", "ervices") >>),
       V(<< Seg("V", "ideo"), Seg("A", "musement"), Seg("G", "ame"), Seg("S", "upplies") >>),
       V(<< Seg("V", "ideo"), Seg("G", "ame"), Seg("A", "rcades") >>),
       V(<< Seg("V", "ideo"), Seg("T", "ape"), Seg("R", "ental"), Seg("S", "tores") >>),
       V(<< Seg("V", "ocational"), Seg("T", "rade"), Seg("S", "chools") >>),
       V(<< Seg("W", "atch"), Seg("J", "ewelry"), Seg("R", "epair") >>),
       V(<< Seg("W", "elding"), Seg("R", "epair") >>),
       V(<< Seg("W", "holesale"), Seg("C", "lubs") >>),
       V(<< Seg("W", "ig"), Seg("A", "nd"), Seg("T", "oupee"), Seg("S", "tores") >>),
       V(<< Seg("W", "ires"), Seg("M", "oney"), Seg("O", "rders") >>),
       V(<< Seg("W", "omens"), Seg("A", "ccessory"), Seg("A", "nd"), Seg("S", "pecialty"), Seg("S", "hops") >>),
       V(<< Seg("W", "omens"), Seg("R", "eady"), Seg("T", "o"), Seg("W", "ear"), Seg("S", "tores") >>),
       V(<< Seg("W", "recking"), Seg("A", "nd"), Seg("S", "alvage"), Seg("Y", "ards") >>) >>

\* char::to_lowercase of an upper-case letter
Lower(ch) ==
    CASE ch = "A" -> "a"
      [] ch = "B" -> "b"
      [] ch = "C" -> "c"
      [] ch = "D" -> "d"
      [] ch = "E" -> "e"
      [] ch = "F" -> "f"
      [] ch = "G" -> "g"
      [] ch = "H" -> "h"
      [] ch = "I" -> "i"
      [] ch = "J" -> "j"
      [] ch = "K" -> "k"
      [] ch = "L" -> "l"
      [] ch = "M" -> "m"
      [] ch = "N" -> "n"
      [] ch = "O" -> "o"
      [] ch = "P" -> "p"
      [] ch = "Q" -> "q"
      [] ch = "R" -> "r"
      [] ch = "S" -> "s"
      [] ch = "T" -> "t"
      [] ch = "U" -> "u"
      [] ch = "V" -> "v"
      [] ch = "W" -> "w"
      [] ch = "X" -> "x"
      [] ch = "Y" -> "y"
      [] ch = "Z" -> "z"
      [] OTHER -> ch

RECURSIVE Concat(_)
\* the strings of a sequence, joined
Concat(q) == IF q = << >> THEN "" ELSE Head(q) \o Concat(Tail(q))

\* the name of a variant as written in the source
VariantName(v) == Concat([i \in DOMAIN v.segs |-> v.segs[i].up \o v.segs[i].rest])

\* SnakeCase that joins the lower-cased name without separators
SnakeCase_Joined(segs) ==
    Concat([i \in DOMAIN segs |-> Lower(segs[i].up) \o segs[i].rest])

\* rename_all = "snake_case": every upper-case letter is replaced by its
\* lower-case letter, with "_" before it unless it is the first character
SnakeCase(segs) ==
    Concat([i \in DOMAIN segs |->
               (IF i > 1 THEN "_" ELSE "") \o Lower(segs[i].up) \o segs[i].rest])

\* the string a variant is serialized as and deserialized from
WireName(v) == IF v.rename # "" THEN v.rename ELSE SnakeCase(v.segs)

RefundReasonWire == [i \in DOMAIN RefundReason |-> WireName(RefundReason[i])]
SubscriptionBillingWire ==
    [i \in DOMAIN SubscriptionBilling |-> WireName(SubscriptionBilling[i])]
SubscriptionStatusWire ==
    [i \in DOMAIN SubscriptionStatus |-> WireName(SubscriptionStatus[i])]
SubscriptionStatusFilterWire ==
    [i \in DOMAIN SubscriptionStatusFilter |-> WireName(SubscriptionStatusFilter[i])]
MerchantCategoryWire ==
    [i \in DOMAIN MerchantCategory |-> WireName(MerchantCategory[i])]

EnumTypes ==
    {"RefundReason", "SubscriptionBilling", "SubscriptionStatus",
     "SubscriptionStatusFilter", "MerchantCategory"}
EnumTable(ty) ==
    CASE ty = "RefundReason" -> RefundReason
      [] ty = "SubscriptionBilling" -> SubscriptionBilling
      [] ty = "SubscriptionStatus" -> SubscriptionStatus
      [] ty = "SubscriptionStatusFilter" -> SubscriptionStatusFilter
      [] ty = "MerchantCategory" -> MerchantCategory
      [] OTHER -> << >>
Wires(ty) ==
    CASE ty = "RefundReason" -> RefundReasonWire
      [] ty = "SubscriptionBilling" -> SubscriptionBillingWire
      [] ty = "SubscriptionStatus" -> SubscriptionStatusWire
      [] ty = "SubscriptionStatusFilter" -> SubscriptionStatusFilterWire
      [] ty = "MerchantCategory" -> MerchantCategoryWire
      [] OTHER -> << >>

\* the wire strings of an enumeration
Variants(ty) == {Wires(ty)[i] : i \in DOMAIN Wires(ty)}

\* derive(Serialize) of an enumeration: the wire string of the variant
EnumSerialize(ty, i) == JStr(Wires(ty)[i])

\* EnumDeserialize that yields the first variant for every wire string
EnumDeserialize_FirstMatch(ty, j) ==
    IF j.t = "str" /\ \E i \in DOMAIN Wires(ty) : Wires(ty)[i] = j.s
    THEN [ok |-> TRUE, i |-> 1]
    ELSE [ok |-> FALSE, i |-> 0]

\* derive(Deserialize) of an enumeration: the variant of that wire string,
\* the first one in the order of declaration, or an error
EnumDeserialize(ty, j) ==
    IF j.t = "str" /\ \E i \in DOMAIN Wires(ty) : Wires(ty)[i] = j.s
    THEN [ok |-> TRUE,
          i |-> CHOOSE i \in DOMAIN Wires(ty) :
                    /\ Wires(ty)[i] = j.s
                    /\ \A k \in 1..(i - 1) : Wires(ty)[k] # j.s]
    ELSE [ok |-> FALSE, i |-> 0]

\* RefundReason::as_str with the string of RequestedByCustomer on the arm of
\* Fraudulent too
RefundReason_as_str_Copied(i) ==
    CASE VariantName(RefundReason[i]) = "Duplicate" -> "duplicate"
      [] VariantName(RefundReason[i]) = "Fraudulent" -> "requested_by_customer"
      [] VariantName(RefundReason[i]) = "RequestedByCustomer" -> "requested_by_customer"

\* RefundReason::as_str, and as_ref and Display, which call it
RefundReason_as_str(i) ==
    CASE VariantName(RefundReason[i]) = "Duplicate" -> "duplicate"
      [] VariantName(RefundReason[i]) = "Fraudulent" -> "fraudulent"
      [] VariantName(RefundReason[i]) = "RequestedByCustomer" -> "requested_by_customer"
RefundReason_as_ref(i) == RefundReason_as_str(i)
RefundReason_fmt(i) == RefundReason_as_str(i)

(***************************************************************************)
(* Expandable<T> and List<T>.                                              *)
(***************************************************************************)
\* Expandable::id: the identifier, whichever variant is populated
Expandable_id(e) == IF e.t = "Id" THEN e.s ELSE e.o["id"].v.s

\* ExpandableSerialize that writes the Object variant as the object's id field
\* wrapped in an object
ExpandableSerialize_Inline(e) ==
    IF e.t = "Id" THEN JStr(e.s) ELSE JObj([id |-> JStr(e.o["id"].v.s)])

\* serialization of an Expandable<T>: the identifier form
ExpandableSerialize(e) == JStr(Expandable_id(e))

\* List::items and List::has_more
List_items(l) == l.a
List_has_more(l) == l.n = 1

(***************************************************************************)
(* Serialization (derive(Serialize)).  A field is left out when its        *)
(* skip_serializing_if predicate holds of its value; a field that is kept  *)
(* is written under its wire key, None as null.                            *)
(***************************************************************************)
\* Skip that also leaves out a Some(_) holding an empty map
Skip_EmptyToo(attr, fv) ==
    CASE attr = "Option::is_none" ->
            Option_is_none(fv) \/ (fv.v.t = "obj" /\ DOMAIN fv.v.o = {})
      [] attr = "Expand::is_empty" -> Expand_is_empty(fv)
      [] OTHER -> FALSE

Skip(attr, fv) ==
    CASE attr = "Option::is_none" -> Option_is_none(fv)
      [] attr = "Expand::is_empty" -> Expand_is_empty(fv)
      [] OTHER -> FALSE

Kept(fields, inst) ==
    {i \in DOMAIN fields : ~Skip(fields[i].skip, inst[fields[i].name])}

RECURSIVE ToWire(_, _)
RECURSIVE Serialize(_, _)

UntaggedTable(ty) ==
    CASE ty = "TrialEnd" -> TrialEnd
      [] ty = "CustomerSource" -> CustomerSource

\* the type of the value the variant `name` of the enumeration ty holds
VariantTy(ty, name) ==
    LET tab == UntaggedTable(ty)
    IN  tab[CHOOSE i \in DOMAIN tab : tab[i].name = name].ty

\* UntaggedSerialize without #[serde(untagged)]: serde's externally tagged
\* form, the inner value under a key that is the variant's name
UntaggedSerialize_Tagged(ty, x) ==
    JObj(x.s :> ToWire(VariantTy(ty, x.s), x.a[1]))

\* derive(Serialize) of an enumeration with #[serde(untagged)]: the value
\* the variant holds, serialized as its own type
UntaggedSerialize(ty, x) == ToWire(VariantTy(ty, x.s), x.a[1])

\* the JSON value of a value held in memory
ToWire(ty, x) ==
    CASE x.t \in {"Id", "Object"} -> ExpandableSerialize(x)
      [] x.t = "variant" -> UntaggedSerialize(ty, x)
      [] x.t = "struct" -> JObj(Serialize(Table(ty), x.o))
      [] x.t = "List" ->
            JObj([data |-> JArr([i \in DOMAIN x.a |-> ToWire(Target(ty), x.a[i])]),
                  has_more |-> JBool(x.n = 1)])
      [] x.t = "arr" -> JArr([i \in DOMAIN x.a |-> ToWire(Target(ty), x.a[i])])
      [] OTHER -> x

SerializeValue(ty, fv) == IF fv.set THEN ToWire(ty, fv.v) ELSE JNull

Serialize(fields, inst) ==
    [k \in {fields[i].key : i \in Kept(fields, inst)} |->
        LET i == CHOOSE j \in Kept(fields, inst) : fields[j].key = k
        IN  SerializeValue(fields[i].ty, inst[fields[i].name])]

Names(fields) == {fields[i].name : i \in DOMAIN fields}
IndexOf(fields, name) == CHOOSE i \in DOMAIN fields : fields[i].name = name
FieldOf(fields, name) == fields[IndexOf(fields, name)]

\* a field is optional when it is an Option or the `expand` slice, and
\* populated when it is Some(_) or a non-empty `expand`
IsOptional(fld) == fld.opt \/ fld.ty = "&[&str]"
Optional(fields) == {n \in Names(fields) : IsOptional(FieldOf(fields, n))}
Populated(fld, fv) ==
    IF fld.opt THEN fv.set
    ELSE IF fld.ty = "&[&str]" THEN Len(fv.v.a) > 0
    ELSE FALSE
PopulatedFields(fields, inst) ==
    {n \in Optional(fields) : Populated(FieldOf(fields, n), inst[n])}

\* the keys of the fields that are not optional
MandatoryKeys(fields) ==
    {FieldOf(fields, n).key : n \in Names(fields) \ Optional(fields)}

(***************************************************************************)
(* The values a caller gives to a field, by the field's type, and the      *)
(* instances of a parameter structure a caller builds: at most             *)
(* MaxPopulated of the optional fields populated, the others unset.        *)
(***************************************************************************)
EmptyMetadata == JObj(NoFields)
SomeMetadata == JObj([order_id |-> JStr("6735")])

Values(ty) ==
    CASE ty = "Metadata" -> {EmptyMetadata, SomeMetadata}
      [] ty \in NumberTypes -> {JNum(1)}
      [] ty = "bool" -> {JBool(TRUE)}
      [] ty = "ChargeId" -> {JStr("ch_123")}
      [] ty = "RefundId" -> {JStr("re_1")}
      [] ty = "CustomerId" -> {JStr("cus_1")}
      [] ty = "SubscriptionId" -> {JStr("sub_1")}
      [] ty = "PlanId" -> {JStr("gold")}
      [] ty = "RefundReason" -> {JStr("duplicate")}
      [] ty = "SubscriptionBilling" -> {JStr("send_invoice")}
      [] ty = "SubscriptionStatusFilter" -> {JStr("all")}
      [] ty = "RangeQuery" -> {JObj([gt |-> JNum(1)])}
      [] ty = "TrialEnd" ->
            {Variant("Timestamp", JNum(1)), Variant("Special", JStr("now"))}
      [] ty = "Vec<ItemParams>" ->
            {JArr(<< JObj(Serialize(ItemParams,
                                    [plan |-> Plain(JStr("gold")), quantity |-> None])) >>)}
      [] ty = "OwnerParams" ->
            {JObj(Serialize(OwnerParams, [n \in Names(OwnerParams) |-> None]))}
      [] ty = "RedirectParams" ->
            {JObj(Serialize(RedirectParams,
                            [return_url |-> Plain(JStr("https://example.com"))]))}
      [] ty = "CustomerSource" ->
            {Variant("Token", JStr("tok_1")),
             Variant("Card", JObj([number |-> JStr("4242424242424242")]))}
      [] ty = "CustomerShippingDetails" ->
            {JObj([address |-> JObj([line1 |-> JStr("1 Main St")]),
                   name |-> JStr("n"), phone |-> JStr("p")])}
      [] ty = "Address" -> {JObj([line1 |-> JStr("1 Main St")])}
      [] ty = "&[&str]" -> {JArr(<< JStr("charge") >>)}
      [] OTHER -> {JStr("x")}

\* the value of an unpopulated field, and the values of a populated one
UnsetValue(fld) ==
    IF fld.opt THEN None
    ELSE IF fld.ty = "&[&str]" THEN Plain(JArr(<< >>))
    ELSE Plain(CHOOSE x \in Values(fld.ty) : TRUE)

SetValues(fld) ==
    IF fld.opt THEN {Some(x) : x \in Values(fld.ty)}
    ELSE {Plain(x) : x \in Values(fld.ty)}

\* new() and Default::default(): every optional field unset
AllUnset(fields) == [n \in Names(fields) |-> UnsetValue(FieldOf(fields, n))]

RECURSIVE Populate(_, _, _)
\* the instances that populate the fields P of the instance inst
Populate(fields, inst, P) ==
    IF P = {} THEN {inst}
    ELSE LET n == CHOOSE m \in P : TRUE
         IN  UNION {Populate(fields, [inst EXCEPT ![n] = fv], P \ {n}) :
                        fv \in SetValues(FieldOf(fields, n))}

Instances(fields) ==
    UNION {Populate(fields, AllUnset(fields), P) :
              P \in {Q \in SUBSET Optional(fields) : Cardinality(Q) <= MaxPopulated}}

(***************************************************************************)
(* Deserialization (derive(Deserialize)).  A result is ok with the value   *)
(* read, or not ok: the payload does not have the shape of the type.       *)
(* Keys of the payload that name no field are ignored.  A field that is an *)
(* Option is None when its key is absent or null; any other field whose    *)
(* key is absent fails.                                                    *)
(***************************************************************************)
R(ok, x) == [ok |-> ok, v |-> IF ok THEN x ELSE JNull]

RECURSIVE DeValue(_, _)
RECURSIVE DeStruct(_, _)

\* Expandable<T> of a payload value: a string is the Id variant, an object
\* that deserializes as T the Object variant
ExpandableDeserialize(target, j) ==
    IF j.t = "str" THEN R(TRUE, ExpId(j.s))
    ELSE IF j.t = "obj"
         THEN LET d == DeStruct(Table(target), j.o) IN R(d.ok, ExpObject(d.v))
         ELSE R(FALSE, JNull)

\* ListDeserialize that reads `data` from its end
ListDeserialize_Reversed(target, j) ==
    IF /\ j.t = "obj"
       /\ Has(j.o, "data") /\ j.o["data"].t = "arr"
       /\ Has(j.o, "has_more") /\ j.o["has_more"].t = "bool"
    THEN LET n == Len(j.o["data"].a)
             d == [i \in DOMAIN j.o["data"].a |->
                      DeValue(target, j.o["data"].a[n + 1 - i])]
         IN  R(\A i \in DOMAIN d : d[i].ok,
               ListOf([i \in DOMAIN d |-> d[i].v], j.o["has_more"].n = 1))
    ELSE R(FALSE, JNull)

\* List<T> of a payload value: the items of `data`, in their order, and has_more
ListDeserialize(target, j) ==
    IF /\ j.t = "obj"
       /\ Has(j.o, "data") /\ j.o["data"].t = "arr"
       /\ Has(j.o, "has_more") /\ j.o["has_more"].t = "bool"
    THEN LET d == [i \in DOMAIN j.o["data"].a |-> DeValue(target, j.o["data"].a[i])]
         IN  R(\A i \in DOMAIN d : d[i].ok,
               ListOf([i \in DOMAIN d |-> d[i].v], j.o["has_more"].n = 1))
    ELSE R(FALSE, JNull)

\* #[serde(tag = "object")] enum Source { #[serde(rename = "card")] Card(Card) }
SourceDeserialize(j) ==
    IF j.t = "obj" /\ Has(j.o, "object") /\ j.o["object"] = JStr("card")
    THEN LET d == DeStruct(Table("Card"), j.o) IN R(d.ok, SourceCard(d.v))
    ELSE R(FALSE, JNull)

DeField(fld, obj) ==
    IF ~Has(obj, fld.key) \/ (fld.opt /\ obj[fld.key].t = "null")
    THEN [ok |-> fld.opt, v |-> None]
    ELSE LET d == DeValue(fld.ty, obj[fld.key])
         IN  [ok |-> d.ok, v |-> IF fld.opt THEN Some(d.v) ELSE Plain(d.v)]

DeStruct(fields, obj) ==
    LET d == [n \in Names(fields) |-> DeField(FieldOf(fields, n), obj)]
    IN  [ok |-> \A n \in Names(fields) : d[n].ok,
         v |-> [n \in Names(fields) |-> d[n].v]]

DeValue(ty, j) ==
    CASE ty \in StringTypes -> R(j.t = "str", j)
      [] ty \in NumberTypes -> R(j.t = "num", j)
      [] ty = "bool" -> R(j.t = "bool", j)
      [] ty = "Metadata" ->
            R(j.t = "obj" /\ \A k \in DOMAIN j.o : j.o[k].t = "str", j)
      [] ty \in EnumTypes -> R(EnumDeserialize(ty, j).ok, j)
      [] ty \in ExpandableTypes -> ExpandableDeserialize(Target(ty), j)
      [] ty \in ListTypes -> ListDeserialize(Target(ty), j)
      [] ty \in VecTypes ->
            IF j.t = "arr"
            THEN LET d == [i \in DOMAIN j.a |-> DeValue(Target(ty), j.a[i])]
                 IN  R(\A i \in DOMAIN d : d[i].ok, JArr([i \in DOMAIN d |-> d[i].v]))
            ELSE R(FALSE, JNull)
      [] ty = "Source" -> SourceDeserialize(j)
      [] OTHER ->
            IF j.t = "obj"
            THEN LET d == DeStruct(Table(ty), j.o) IN R(d.ok, Struct(d.v))
            ELSE R(FALSE, JNull)

(***************************************************************************)
(* The resource identity contract (impl Object).                           *)
(***************************************************************************)
\* Refund::id that returns the identifier of the refunded charge
Refund_id_OfCharge(dto) ==
    IF dto["charge"].set THEN Expandable_id(dto["charge"].v) ELSE dto["id"].v.s
Refund_id(dto) == dto["id"].v.s
Refund_object(dto) == "refund"
Subscription_id(dto) == dto["id"].v.s
\* Subscription::object with the tag of Refund
Subscription_object_Copied(dto) == "refund"
Subscription_object(dto) == "subscription"

(***************************************************************************)
(* The payloads the server answers with.                                   *)
(***************************************************************************)
With(f, k, x) == [y \in DOMAIN f \cup {k} |-> IF y = k THEN x ELSE f[y]]
Without(f, k) == [y \in DOMAIN f \ {k} |-> f[y]]

ListPayload(items, more) ==
    JObj([object |-> JStr("list"), data |-> JArr(items), has_more |-> JBool(more),
          url |-> JStr("/v1/list")])

ChargePayload ==
    JObj([object |-> JStr("charge"), id |-> JStr("ch_123"), amount |-> JNum(1),
          created |-> JNum(1), currency |-> JStr("usd"), metadata |-> EmptyMetadata,
          paid |-> JBool(TRUE)])

RefundFields(id) ==
    [object |-> JStr("refund"), id |-> JStr(id), amount |-> JNum(1),
     created |-> JNum(1), currency |-> JStr("usd"), metadata |-> EmptyMetadata]

\* a refund as the server sends it unexpanded, and with `charge` expanded
RefundPayload(id) == JObj(With(RefundFields(id), "charge", JStr("ch_123")))
RefundExpanded(id) ==
    JObj(With(With(RefundFields(id), "charge", ChargePayload),
              "balance_transaction", JStr("txn_1")))

CardPayload == JObj([object |-> JStr("card"), id |-> JStr("card_1")])
ReceiverPayload == JObj([object |-> JStr("bitcoin_receiver"), id |-> JStr("btcrcv_1")])
DeletedPayload == JObj([deleted |-> JBool(TRUE), id |-> JStr("cus_1")])

CustomerFields ==
    [object |-> JStr("customer"), id |-> JStr("cus_1"), account_balance |-> JNum(0),
     created |-> JNum(1), currency |-> JStr("usd"), default_source |-> JStr("card_1"),
     delinquent |-> JBool(FALSE), email |-> JStr("a@example.com"),
     livemode |-> JBool(FALSE), metadata |-> EmptyMetadata,
     sources |-> ListPayload(<< CardPayload >>, FALSE),
     subscriptions |-> ListPayload(<< >>, FALSE)]
CustomerPayload == JObj(CustomerFields)

SubscriptionFields(cust) ==
    [object |-> JStr("subscription"), id |-> JStr("sub_1"),
     billing |-> JStr("charge_automatically"), billing_cycle_anchor |-> JNum(1),
     cancel_at_period_end |-> JBool(FALSE), created |-> JNum(1),
     current_period_end |-> JNum(2), current_period_start |-> JNum(1),
     customer |-> cust, items |-> ListPayload(<< >>, FALSE),
     livemode |-> JBool(FALSE), metadata |-> EmptyMetadata,
     status |-> JStr("active")]
SubscriptionPayload == JObj(SubscriptionFields(JStr("cus_1")))
SubscriptionExpanded ==
    JObj(With(SubscriptionFields(CustomerPayload), "latest_invoice",
              JObj([object |-> JStr("invoice"), id |-> JStr("in_1")])))

\* a payload of one kind under the object tag of another
Retag(j, tag) == JObj(With(j.o, "object", JStr(tag)))

ObjectPayloads ==
    {RefundPayload("re_1"), RefundExpanded("re_2"),
     JObj(Without(RefundFields("re_1"), "amount")),
     JObj(With(RefundFields("re_1"), "charge", JNum(7))),
     ChargePayload, SubscriptionPayload, SubscriptionExpanded,
     Retag(SubscriptionPayload, "refund"), CustomerPayload,
     Retag(CustomerPayload, "subscription"), CardPayload, ReceiverPayload,
     DeletedPayload}

RECURSIVE Seqs(_, _)
\* the sequences of at most n elements of S
Seqs(S, n) ==
    IF n = 0 THEN {<< >>}
    ELSE LET shorter == Seqs(S, n - 1)
         IN  shorter \cup {Append(q, x) : q \in shorter, x \in S}

ListPayloads ==
    {ListPayload(items, more) :
        items \in Seqs({RefundPayload("re_1"), RefundExpanded("re_2")}, MaxItems),
        more \in BOOLEAN}
    \cup {ListPayload(<< SubscriptionPayload >>, TRUE)}

\* the payloads tried on an operation that returns ret
ResponsesFor(ret) ==
    IF ret \in ListTypes
    THEN ListPayloads \cup {RefundPayload("re_1")}
    ELSE ObjectPayloads \cup {ListPayload(<< RefundPayload("re_1") >>, TRUE)}

(***************************************************************************)
(* The state: per caller, the call it has in progress.                     *)
(*   pc        "idle", "shim" (the request is with the transport), "got"   *)
(*             (the transport has answered), "returned"                    *)
(*   op        the operation method called, ident its identifier argument  *)
(*   arg       its parameter structure                                     *)
(*   request   what it handed to the transport                             *)
(*   wire      the payload the transport received                          *)
(*   response  the transport's result                                      *)
(*   result    what the method returned to the caller                      *)
(*   shimCalls the calls of the transport made for this call               *)
(* and concurrent: whether the callers' calls may overlap.                 *)
(*                                                                         *)
(* Besides the calls, a DTO a caller holds apart from any call (dtoCase)   *)
(* and a value of an enumeration being converted (enumCase).               *)
(***************************************************************************)
VARIABLES pc, op, ident, arg, request, wire, response, result, shimCalls,
          concurrent, dtoCase, enumCase

vars == << pc, op, ident, arg, request, wire, response, result, shimCalls,
           concurrent, dtoCase, enumCase >>

\* the state of the calls, and the state apart from the calls
callVars == << pc, op, ident, arg, request, wire, response, result, shimCalls,
               concurrent >>
caseVars == << dtoCase, enumCase >>

NoRequest == [shim |-> "", path |-> "", key |-> "", body |-> NoFields, ret |-> ""]
NoResult == [tag |-> "", err |-> "", v |-> JNull]
OkR(x) == [tag |-> "Ok", err |-> "", v |-> x]
ErrR(kind) == [tag |-> "Err", err |-> kind, v |-> JNull]

\* the error kinds: network failure, API-level failure, shape mismatch
ErrorKinds == {"network", "api", "shape"}

\* the arguments callers pass
RefundIds == {"re_1", "re_2"}
StrIds == {"sub_1", "cus_1"}
Keys == {"sk_test_1"}

Idle ==
    /\ pc = [c \in Callers |-> "idle"]
    /\ op = [c \in Callers |-> ""]
    /\ ident = [c \in Callers |-> ""]
    /\ arg = [c \in Callers |-> NoFields]
    /\ request = [c \in Callers |-> NoRequest]
    /\ wire = [c \in Callers |-> JNull]
    /\ response = [c \in Callers |-> NoResult]
    /\ result = [c \in Callers |-> NoResult]
    /\ shimCalls = [c \in Callers |-> 0]

\* no DTO held and no enumeration value being converted
NoCase == [at |-> "none"]

Init ==
    /\ Idle
    /\ concurrent = FALSE
    /\ dtoCase = NoCase
    /\ enumCase = NoCase

\* a caller calls while no other call is in progress, unless the callers
\* run concurrently
MayCall(c) ==
    /\ pc[c] = "idle"
    /\ concurrent \/ \A d \in Callers \ {c} : pc[d] = "idle"

\* the bodies and the payloads the callers that run concurrently draw from
ConcurrentBodies == {NoFields, [metadata |-> SomeMetadata]}
ConcurrentResponses ==
    {RefundPayload("re_1"), ListPayload(<< RefundPayload("re_1") >>, TRUE)}

\* Call that builds the request in one buffer all the calls in progress read
Call_SharedBuffer(c, name, id, params, shim, path, key, body, ret) ==
    /\ concurrent => body \in ConcurrentBodies
    /\ pc' = [pc EXCEPT ![c] = "shim"]
    /\ op' = [op EXCEPT ![c] = name]
    /\ ident' = [ident EXCEPT ![c] = id]
    /\ arg' = [arg EXCEPT ![c] = params]
    /\ request' = [d \in Callers |->
                       IF d = c \/ pc[d] # "idle"
                       THEN [shim |-> shim, path |-> path, key |-> key, body |-> body,
                             ret |-> ret]
                       ELSE request[d]]
    /\ shimCalls' = [shimCalls EXCEPT ![c] = @ + 1]
    /\ UNCHANGED << wire, response, result, concurrent, caseVars >>

\* the one call of the transport an operation method makes
Call(c, name, id, params, shim, path, key, body, ret) ==
    /\ concurrent => body \in ConcurrentBodies
    /\ pc' = [pc EXCEPT ![c] = "shim"]
    /\ op' = [op EXCEPT ![c] = name]
    /\ ident' = [ident EXCEPT ![c] = id]
    /\ arg' = [arg EXCEPT ![c] = params]
    /\ request' = [request EXCEPT ![c] =
                       [shim |-> shim, path |-> path, key |-> key, body |-> body,
                        ret |-> ret]]
    /\ shimCalls' = [shimCalls EXCEPT ![c] = @ + 1]
    /\ UNCHANGED << wire, response, result, concurrent, caseVars >>

\* the instances of each parameter structure the callers build
ListRefundsArgs == Instances(ListRefunds)
CreateRefundArgs == Instances(CreateRefund)
ExpandArgs == Instances(Expand)
UpdateRefundArgs == Instances(UpdateRefund)
SubscriptionParamsArgs == Instances(SubscriptionParams)
CancelParamsArgs == Instances(CancelParams)
SubscriptionListParamsArgs == Instances(SubscriptionListParams)
CustomerParamsArgs == Instances(CustomerParams)
SourceParamsArgs == Instances(SourceParams)

Refund_list(c) ==
    /\ MayCall(c)
    /\ \E params \in ListRefundsArgs :
          Call(c, "Refund::list", "", params, "get_query", "/refunds", "",
               Serialize(ListRefunds, params), "List<Refund>")

Refund_create(c) ==
    /\ MayCall(c)
    /\ \E params \in CreateRefundArgs :
          Call(c, "Refund::create", "", params, "post_form", "/refunds", "",
               Serialize(CreateRefund, params), "Refund")

Refund_retrieve(c) ==
    /\ MayCall(c)
    /\ \E id \in RefundIds, expand \in ExpandArgs :
          Call(c, "Refund::retrieve", id, expand, "get_query", "/refunds/" \o id, "",
               Serialize(Expand, expand), "Refund")

Refund_update(c) ==
    /\ MayCall(c)
    /\ \E id \in RefundIds, params \in UpdateRefundArgs :
          Call(c, "Refund::update", id, params, "post_form", "/refunds/" \o id, "",
               Serialize(UpdateRefund, params), "Refund")

Subscription_create(c) ==
    /\ MayCall(c)
    /\ \E params \in SubscriptionParamsArgs :
          Call(c, "Subscription::create", "", params, "post_form", "/subscriptions",
               "", Serialize(SubscriptionParams, params), "Subscription")

Subscription_retrieve(c) ==
    /\ MayCall(c)
    /\ \E subscription_id \in StrIds :
          Call(c, "Subscription::retrieve", subscription_id, NoFields, "get",
               "/subscriptions/" \o subscription_id, "", NoFields, "Subscription")

Subscription_update(c) ==
    /\ MayCall(c)
    /\ \E subscription_id \in StrIds, params \in SubscriptionParamsArgs :
          Call(c, "Subscription::update", subscription_id, params, "post_form",
               "/subscriptions/" \o subscription_id, "",
               Serialize(SubscriptionParams, params), "Subscription")

Subscription_cancel(c) ==
    /\ MayCall(c)
    /\ \E subscription_id \in StrIds, params \in CancelParamsArgs :
          Call(c, "Subscription::cancel", subscription_id, params, "delete_query",
               "/subscriptions/" \o subscription_id, "",
               Serialize(CancelParams, params), "Subscription")

Subscription_list(c) ==
    /\ MayCall(c)
    /\ \E params \in SubscriptionListParamsArgs :
          Call(c, "Subscription::list", "", params, "get_query", "/subscriptions", "",
               Serialize(SubscriptionListParams, params), "List<Subscription>")

Customer_create(c) ==
    /\ MayCall(c)
    /\ \E params \in CustomerParamsArgs, key \in Keys :
          Call(c, "Customer::create", "", params, "http::post", "/customers", key,
               Serialize(CustomerParams, params), "Customer")

Customer_get(c) ==
    /\ MayCall(c)
    /\ \E customer_id \in StrIds, key \in Keys :
          Call(c, "Customer::get", customer_id, NoFields, "http::get",
               "/customers/" \o customer_id, key, NoFields, "Customer")

Customer_update(c) ==
    /\ MayCall(c)
    /\ \E customer_id \in StrIds, params \in CustomerParamsArgs, key \in Keys :
          Call(c, "Customer::update", customer_id, params, "http::post",
               "/customers/" \o customer_id, key,
               Serialize(CustomerParams, params), "Customer")

Customer_delete(c) ==
    /\ MayCall(c)
    /\ \E customer_id \in StrIds, key \in Keys :
          Call(c, "Customer::delete", customer_id, NoFields, "http::delete",
               "/customers/" \o customer_id, key, NoFields, "Deleted")

Source_create(c) ==
    /\ MayCall(c)
    /\ \E params \in SourceParamsArgs, key \in Keys :
          Call(c, "Source::create", "", params, "http::post", "/sources", key,
               Serialize(SourceParams, params), "Source")

Source_get(c) ==
    /\ MayCall(c)
    /\ \E source_id \in StrIds, key \in Keys :
          Call(c, "Source::get", source_id, NoFields, "http::get",
               "/sources/" \o source_id, key, NoFields, "Source")

Source_update(c) ==
    /\ MayCall(c)
    /\ \E source_id \in StrIds, params \in SourceParamsArgs, key \in Keys :
          Call(c, "Source::update", source_id, params, "http::post",
               "/source/" \o source_id, key, Serialize(SourceParams, params),
               "Source")

\* The transport: one round trip.  It fails (network, API-level), or it
\* receives a payload and deserializes it as the type the method returns.
Deserialized(ret, j) ==
    LET d == DeValue(ret, j) IN IF d.ok THEN OkR(d.v) ELSE ErrR("shape")

ShimRespond(c) ==
    /\ pc[c] = "shim"
    /\ \/ \E kind \in {"network", "api"} :
            /\ concurrent => kind = "network"
            /\ wire' = [wire EXCEPT ![c] = JNull]
            /\ response' = [response EXCEPT ![c] = ErrR(kind)]
       \/ \E j \in ResponsesFor(request[c].ret) :
            /\ concurrent => j \in ConcurrentResponses
            /\ wire' = [wire EXCEPT ![c] = j]
            /\ response' = [response EXCEPT ![c] = Deserialized(request[c].ret, j)]
    /\ pc' = [pc EXCEPT ![c] = "got"]
    /\ UNCHANGED << op, ident, arg, request, result, shimCalls, concurrent, caseVars >>

\* Return that calls the transport again when it failed
Return_Retry(c) ==
    /\ pc[c] = "got"
    /\ IF response[c].tag = "Err" /\ shimCalls[c] < 2
       THEN /\ pc' = [pc EXCEPT ![c] = "shim"]
            /\ shimCalls' = [shimCalls EXCEPT ![c] = @ + 1]
            /\ UNCHANGED result
       ELSE /\ pc' = [pc EXCEPT ![c] = "returned"]
            /\ result' = [result EXCEPT ![c] = response[c]]
            /\ UNCHANGED shimCalls
    /\ UNCHANGED << op, ident, arg, request, wire, response, concurrent, caseVars >>

\* Return that turns a shape mismatch into an empty success
Return_Recover(c) ==
    /\ pc[c] = "got"
    /\ result' = [result EXCEPT ![c] =
                      IF response[c] = ErrR("shape") THEN OkR(JNull) ELSE response[c]]
    /\ pc' = [pc EXCEPT ![c] = "returned"]
    /\ UNCHANGED << op, ident, arg, request, wire, response, shimCalls, concurrent,
                    caseVars >>

\* the method returns the transport's result
Return(c) ==
    /\ pc[c] = "got"
    /\ result' = [result EXCEPT ![c] = response[c]]
    /\ pc' = [pc EXCEPT ![c] = "returned"]
    /\ UNCHANGED << op, ident, arg, request, wire, response, shimCalls, concurrent,
                    caseVars >>

\* the caller is done with the result
Drop(c) ==
    /\ pc[c] = "returned"
    /\ pc' = [pc EXCEPT ![c] = "idle"]
    /\ op' = [op EXCEPT ![c] = ""]
    /\ ident' = [ident EXCEPT ![c] = ""]
    /\ arg' = [arg EXCEPT ![c] = NoFields]
    /\ request' = [request EXCEPT ![c] = NoRequest]
    /\ wire' = [wire EXCEPT ![c] = JNull]
    /\ response' = [response EXCEPT ![c] = NoResult]
    /\ result' = [result EXCEPT ![c] = NoResult]
    /\ shimCalls' = [shimCalls EXCEPT ![c] = 0]
    /\ UNCHANGED << concurrent, caseVars >>

Next ==
    \E c \in Callers :
        \/ Refund_list(c)
        \/ Refund_create(c)
        \/ Refund_retrieve(c)
        \/ Refund_update(c)
        \/ Subscription_create(c)
        \/ Subscription_retrieve(c)
        \/ Subscription_update(c)
        \/ Subscription_cancel(c)
        \/ Subscription_list(c)
        \/ Customer_create(c)
        \/ Customer_get(c)
        \/ Customer_update(c)
        \/ Customer_delete(c)
        \/ Source_create(c)
        \/ Source_get(c)
        \/ Source_update(c)
        \/ ShimRespond(c)
        \/ Return(c)
        \/ Drop(c)

Spec == Init /\ [][Next]_vars

(***************************************************************************)
(* The callers run concurrently: a caller calls while the calls of the     *)
(* others are in progress.  The operations are those of Refund.            *)
(***************************************************************************)
InitConcurrent ==
    /\ Idle
    /\ concurrent = TRUE
    /\ dtoCase = NoCase
    /\ enumCase = NoCase

NextConcurrent ==
    \E c \in Callers :
        \/ Refund_list(c)
        \/ Refund_create(c)
        \/ Refund_retrieve(c)
        \/ Refund_update(c)
        \/ ShimRespond(c)
        \/ Return(c)
        \/ Drop(c)

SpecConcurrent == InitConcurrent /\ [][NextConcurrent]_vars

(***************************************************************************)
(* A DTO held by a caller, apart from any call: deserialized from a        *)
(* payload, asked for its id() and object(), serialized again.             *)
(*   dtoCase.at     "none", "held" (the payload had the type's shape) or   *)
(*                  "failed" (it had not)                                  *)
(*   .ty .payload   the type asked for and the payload read                *)
(*   .made .dto     the DTO as deserialized, and as it is now              *)
(*   .ids .tags     what the calls of id() and of object() returned        *)
(*   .written .out  whether it was serialized again, and to what           *)
(***************************************************************************)
\* the values a payload gives to a field, by the field's type
PayloadValues(ty) ==
    CASE ty \in StringTypes -> {JStr("x")}
      [] ty \in NumberTypes -> {JNum(1)}
      [] ty = "bool" -> {JBool(TRUE)}
      [] ty = "Metadata" -> {SomeMetadata}
      [] ty \in ExpandableTypes ->
            {JStr("id_1"), JObj([id |-> JStr("id_2")])}
      [] ty \in VecTypes -> {JArr(<< JObj([id |-> JStr("txr_1")]) >>)}
      [] ty = "CustomerShippingDetails" ->
            {JObj([address |-> JObj([id |-> JStr("adr_1")]), name |-> JStr("n"),
                   phone |-> JStr("p")])}
      [] OTHER -> {JObj([id |-> JStr("x_1")])}

RECURSIVE PayloadsWith(_, _, _)
\* the payloads that add the optional fields P to the payload fields f
PayloadsWith(fields, f, P) ==
    IF P = {} THEN {f}
    ELSE LET n == CHOOSE m \in P : TRUE
             fld == FieldOf(fields, n)
         IN  UNION {PayloadsWith(fields, With(f, fld.key, x), P \ {n}) :
                        x \in PayloadValues(fld.ty)}

\* the payloads of a type: its required fields with at most MaxPopulated of
\* its optional fields, with one optional field null, and with one required
\* field missing
PayloadsOf(fields, f) ==
    LET opt == {n \in Names(fields) : FieldOf(fields, n).opt}
        req == Names(fields) \ opt
    IN  UNION {PayloadsWith(fields, f, P) :
                  P \in {Q \in SUBSET opt : Cardinality(Q) <= MaxPopulated}}
        \cup {With(f, FieldOf(fields, n).key, JNull) : n \in opt}
        \cup {Without(f, FieldOf(fields, n).key) : n \in req}

RefundPayloads == {JObj(f) : f \in PayloadsOf(Refund, RefundFields("re_1"))}
SubscriptionPayloads ==
    {JObj(f) : f \in PayloadsOf(Subscription, SubscriptionFields(JStr("cus_1")))}

MerchantDataFields ==
    [network_id |-> JStr("1234"), category |-> JStr("computer_repair")]
MerchantDataPayloads == {JObj(f) : f \in PayloadsOf(MerchantData, MerchantDataFields)}
CustomerPayloads == {JObj(f) : f \in PayloadsOf(Customer, CustomerFields)}

DtoTypes == {"Refund", "Subscription", "Customer", "MerchantData"}
DtoPayloads(ty) ==
    CASE ty = "Refund" -> RefundPayloads \cup {RefundExpanded("re_2")}
      [] ty = "Subscription" -> SubscriptionPayloads \cup {SubscriptionExpanded}
      [] ty = "Customer" -> CustomerPayloads
      [] ty = "MerchantData" -> MerchantDataPayloads
      [] OTHER -> {}

\* serde_json::from_value::<T>: the derived Deserialize of the type
Dto_deserialize ==
    /\ dtoCase.at = "none"
    /\ \E ty \in DtoTypes :
          \E j \in DtoPayloads(ty) :
              LET d == DeValue(ty, j)
              IN  dtoCase' = [at |-> IF d.ok THEN "held" ELSE "failed",
                              ty |-> ty, payload |-> j, made |-> d.v, dto |-> d.v,
                              ids |-> << >>, tags |-> << >>,
                              written |-> FALSE, out |-> JNull]
    /\ UNCHANGED << callVars, enumCase >>

\* Object::id(&self): a clone of the `id` field
Object_id ==
    /\ dtoCase.at = "held"
    /\ dtoCase.ty \in {"Refund", "Subscription"}
    /\ Len(dtoCase.ids) < MaxAccessorCalls
    /\ dtoCase' = [dtoCase EXCEPT !.ids =
                       Append(@, IF dtoCase.ty = "Refund"
                                 THEN Refund_id(dtoCase.dto.o)
                                 ELSE Subscription_id(dtoCase.dto.o))]
    /\ UNCHANGED << callVars, enumCase >>

\* Object::object(&self): the static tag
Object_object ==
    /\ dtoCase.at = "held"
    /\ dtoCase.ty \in {"Refund", "Subscription"}
    /\ Len(dtoCase.tags) < MaxAccessorCalls
    /\ dtoCase' = [dtoCase EXCEPT !.tags =
                       Append(@, IF dtoCase.ty = "Refund"
                                 THEN Refund_object(dtoCase.dto.o)
                                 ELSE Subscription_object(dtoCase.dto.o))]
    /\ UNCHANGED << callVars, enumCase >>

\* serde_json::to_value(&dto): the derived Serialize of the type
Dto_serialize ==
    /\ dtoCase.at = "held"
    /\ dtoCase.ty \in {"Refund", "Subscription", "MerchantData"}
    /\ ~dtoCase.written
    /\ dtoCase' = [dtoCase EXCEPT !.written = TRUE,
                                  !.out = ToWire(dtoCase.ty, dtoCase.dto)]
    /\ UNCHANGED << callVars, enumCase >>

\* the caller lets go of the DTO, or of the error
Dto_drop ==
    /\ dtoCase.at # "none"
    /\ dtoCase' = NoCase
    /\ UNCHANGED << callVars, enumCase >>

NextDto ==
    \/ Dto_deserialize
    \/ Object_id
    \/ Object_object
    \/ Dto_serialize
    \/ Dto_drop

SpecDto == Init /\ [][NextDto]_vars

(***************************************************************************)
(* A value of an enumeration converted: serialized to its wire string,     *)
(* shown as a string (RefundReason), and a text deserialized.              *)
(*   enumCase.at    "none", "serialized" (a variant was serialized),       *)
(*                  "received" (a text came in), "parsed" (the text was    *)
(*                  deserialized)                                          *)
(*   .ty .i         the enumeration and the variant (0: none, a text came) *)
(*   .text          the JSON value written or received                     *)
(*   .back          the result of deserializing .text                      *)
(*   .shown         what as_str, as_ref and Display gave ("": not called)  *)
(***************************************************************************)
NotParsed == [ok |-> FALSE, i |-> 0]
NotShown == [as_str |-> "", as_ref |-> "", display |-> ""]

\* the texts received that no enumeration was serialized to
ReceivedTexts ==
    {JStr("Duplicate"), JStr("DUPLICATE"), JStr(""), JStr("ended"), JStr("all"),
     JStr("requested-by-customer"), JStr("sendInvoice"), JStr("heating_plumbing_ac"),
     JStr("us_federal_government_agencies_or_departments"), JNum(1), JNull}

\* serde_json::to_value(&variant)
Enum_serialize ==
    /\ enumCase.at = "none"
    /\ \E ty \in EnumTypes :
          \E i \in DOMAIN EnumTable(ty) :
              enumCase' = [at |-> "serialized", ty |-> ty, i |-> i,
                           text |-> EnumSerialize(ty, i), back |-> NotParsed,
                           shown |-> NotShown]
    /\ UNCHANGED << callVars, dtoCase >>

\* a text arrives that is to be read as a value of an enumeration
Enum_receive ==
    /\ enumCase.at = "none"
    /\ \E ty \in EnumTypes :
          \E j \in ReceivedTexts :
              enumCase' = [at |-> "received", ty |-> ty, i |-> 0, text |-> j,
                           back |-> NotParsed, shown |-> NotShown]
    /\ UNCHANGED << callVars, dtoCase >>

\* serde_json::from_value::<E>(text)
Enum_deserialize ==
    /\ enumCase.at \in {"serialized", "received"}
    /\ enumCase' = [enumCase EXCEPT !.at = "parsed",
                                    !.back = EnumDeserialize(enumCase.ty, enumCase.text)]
    /\ UNCHANGED << callVars, dtoCase >>

\* RefundReason::as_str(&self)
Reason_as_str ==
    /\ enumCase.at = "serialized"
    /\ enumCase.ty = "RefundReason"
    /\ enumCase.shown.as_str = ""
    /\ enumCase' = [enumCase EXCEPT !.shown.as_str = RefundReason_as_str(enumCase.i)]
    /\ UNCHANGED << callVars, dtoCase >>

\* <RefundReason as AsRef<str>>::as_ref(&self)
Reason_as_ref ==
    /\ enumCase.at = "serialized"
    /\ enumCase.ty = "RefundReason"
    /\ enumCase.shown.as_ref = ""
    /\ enumCase' = [enumCase EXCEPT !.shown.as_ref = RefundReason_as_ref(enumCase.i)]
    /\ UNCHANGED << callVars, dtoCase >>

\* <RefundReason as Display>::fmt, through to_string()
Reason_fmt ==
    /\ enumCase.at = "serialized"
    /\ enumCase.ty = "RefundReason"
    /\ enumCase.shown.display = ""
    /\ enumCase' = [enumCase EXCEPT !.shown.display = RefundReason_fmt(enumCase.i)]
    /\ UNCHANGED << callVars, dtoCase >>

\* the value is let go of
Enum_drop ==
    /\ enumCase.at # "none"
    /\ enumCase' = NoCase
    /\ UNCHANGED << callVars, dtoCase >>

NextEnum ==
    \/ Enum_serialize
    \/ Enum_receive
    \/ Enum_deserialize
    \/ Reason_as_str
    \/ Reason_as_ref
    \/ Reason_fmt
    \/ Enum_drop

SpecEnum == Init /\ [][NextEnum]_vars

(***************************************************************************)
(* What the operation methods are declared with.                           *)
(***************************************************************************)
\* the parameter structure of each operation method (none: no fields)
ParamsOf(name) ==
    CASE name = "Refund::list" -> ListRefunds
      [] name = "Refund::create" -> CreateRefund
      [] name = "Refund::retrieve" -> Expand
      [] name = "Refund::update" -> UpdateRefund
      [] name \in {"Subscription::create", "Subscription::update"} -> SubscriptionParams
      [] name = "Subscription::cancel" -> CancelParams
      [] name = "Subscription::list" -> SubscriptionListParams
      [] name \in {"Customer::create", "Customer::update"} -> CustomerParams
      [] name \in {"Source::create", "Source::update"} -> SourceParams
      [] OTHER -> << >>

\* the calls in progress, and those that have returned
Called(c) == pc[c] # "idle"
Returned(c) == pc[c] = "returned"
ReturnedOk(c) == pc[c] = "returned" /\ result[c].tag = "Ok"

(***************************************************************************)
(* The properties.                                                         *)
(***************************************************************************)

\* C1: a parameter structure with every optional field unset (None, an
\* empty `expand`) serializes to exactly the keys of its fields that are not
\* optional (none, but `plan` of ItemParams), and to no null value.  The
\* nested OwnerParams and ItemParams are those of `owner` and `items`.
C1_UnsetFieldsOmitted ==
    \A c \in Callers :
        Called(c) =>
            LET fields == ParamsOf(op[c])
                body == request[c].body
            IN  /\ PopulatedFields(fields, arg[c]) = {} =>
                      /\ DOMAIN body = MandatoryKeys(fields)
                      /\ \A k \in DOMAIN body : body[k].t # "null"
                /\ (op[c] \in {"Source::create", "Source::update"} /\ Has(body, "owner")) =>
                      DOMAIN body["owner"].o = MandatoryKeys(OwnerParams)
                /\ (op[c] \in {"Subscription::create", "Subscription::update"}
                        /\ Has(body, "items")) =>
                      \A i \in DOMAIN body["items"].a :
                          /\ DOMAIN body["items"].a[i].o = MandatoryKeys(ItemParams)
                          /\ MandatoryKeys(ItemParams) = {"plan"}

\* C1 witness: Refund::update was called with UpdateRefund::new() and handed
\* the transport an empty body
C1_Witness ==
    \E c \in Callers :
        /\ pc[c] = "shim"
        /\ op[c] = "Refund::update"
        /\ arg[c] = AllUnset(UpdateRefund)
        /\ request[c].body = NoFields

\* C2: an update of a subscription (or of a refund) whose only populated
\* field is `metadata`, set to the empty mapping, sends `metadata` as an
\* empty object, and its body differs from the body sent with `metadata` unset.
C2_EmptyMetadataIsSent ==
    \A c \in Callers :
        (/\ Called(c)
         /\ op[c] \in {"Subscription::update", "Refund::update"}
         /\ PopulatedFields(ParamsOf(op[c]), arg[c]) = {"metadata"}
         /\ arg[c]["metadata"] = Some(EmptyMetadata)) =>
            /\ Has(request[c].body, "metadata")
            /\ request[c].body["metadata"] = JObj(NoFields)
            /\ request[c].body #
                   Serialize(ParamsOf(op[c]), [arg[c] EXCEPT !["metadata"] = None])

\* C2 witness: Subscription::update was called with only `metadata` set, to
\* the empty mapping
C2_Witness ==
    \E c \in Callers :
        /\ pc[c] = "shim"
        /\ op[c] = "Subscription::update"
        /\ arg[c] = [AllUnset(SubscriptionParams) EXCEPT !["metadata"] = Some(EmptyMetadata)]
        /\ DOMAIN request[c].body = {"metadata"}

\* the object tag of the resource kind each return type stands for
KindTag(ret) ==
    CASE ret = "Refund" -> "refund"
      [] ret = "Subscription" -> "subscription"
      [] ret = "Customer" -> "customer"
      [] ret = "Source" -> "card"
      [] OTHER -> ""

\* the payload received carries the object tag of another resource kind
TagMismatch(c) ==
    /\ request[c].ret \in {"Refund", "Subscription", "Customer", "Source"}
    /\ wire[c].t = "obj"
    /\ Has(wire[c].o, "object")
    /\ wire[c].o["object"] # JStr(KindTag(request[c].ret))

C4_OneShimCall ==
    \A c \in Callers :
        /\ Called(c) => shimCalls[c] = 1
        /\ ~Called(c) => shimCalls[c] = 0

\* C4 witness: a method has returned a network failure after one call
C4_Witness ==
    \E c \in Callers :
        /\ Returned(c)
        /\ result[c] = ErrR("network")
        /\ shimCalls[c] = 1

\* C5: what an operation method returns is the transport's result: an Ok
\* DTO or list as received, an error as the same error of one of the three
\* kinds.
C5_ResultIsShimResult ==
    \A c \in Callers :
        Returned(c) =>
            /\ result[c] = response[c]
            /\ result[c].tag \in {"Ok", "Err"}
            /\ result[c].tag = "Err" =>
                  /\ result[c].err \in ErrorKinds
                  /\ result[c].v = JNull
            /\ (wire[c] # JNull /\ result[c].tag = "Ok") =>
                  result[c].v = DeValue(request[c].ret, wire[c]).v

\* C5 witness: a method has returned the transport's shape-mismatch error
C5_Witness ==
    \E c \in Callers :
        /\ Returned(c)
        /\ response[c] = ErrR("shape")
        /\ result[c] = ErrR("shape")

\* the path the operations on one identifier are to build
ClaimedPath(name, id) ==
    CASE name \in {"Refund::retrieve", "Refund::update"} -> "/refunds" \o "/" \o id
      [] name \in {"Subscription::retrieve", "Subscription::update",
                   "Subscription::cancel"} -> "/subscriptions" \o "/" \o id
      [] name \in {"Customer::get", "Customer::update", "Customer::delete"} ->
            "/customers" \o "/" \o id
      [] name \in {"Source::get", "Source::update"} -> "/sources" \o "/" \o id
      [] OTHER -> ""

\* C6: the operations of a resource on an identifier X all build the path
\* of the resource's create operation followed by "/" and X.
C6_SamePathPerIdentifier ==
    \A c \in Callers :
        (Called(c) /\ ident[c] # "") =>
            request[c].path = ClaimedPath(op[c], ident[c])

\* the expandable-reference fields of the DTOs
ExpandableFields(ret) ==
    CASE ret = "Refund" ->
            {"balance_transaction", "charge", "failure_balance_transaction",
             "source_transfer_reversal", "transfer_reversal"}
      [] ret = "Subscription" -> {"customer", "default_payment_method", "latest_invoice"}
      [] OTHER -> {}

\* C7: an expandable-reference field whose payload value is a string s is
\* the Id variant and id() is s; one whose payload value is a nested object
\* is the Object variant and id() is the nested object's own id.
C7_ExpandableVariants ==
    \A c \in Callers :
        (ReturnedOk(c) /\ request[c].ret \in {"Refund", "Subscription"}) =>
            \A f \in ExpandableFields(request[c].ret) :
                LET dto == result[c].v.o
                    payload == wire[c].o
                IN  /\ (Has(payload, f) /\ payload[f].t = "str") =>
                          /\ dto[f].set
                          /\ dto[f].v.t = "Id"
                          /\ Expandable_id(dto[f].v) = payload[f].s
                    /\ (Has(payload, f) /\ payload[f].t = "obj") =>
                          /\ dto[f].set
                          /\ dto[f].v.t = "Object"
                          /\ Expandable_id(dto[f].v) = payload[f].o["id"].s

\* C7 witness: a refund was returned with `charge` inlined and
\* `balance_transaction` as an identifier
C7_Witness ==
    \E c \in Callers :
        /\ ReturnedOk(c)
        /\ request[c].ret = "Refund"
        /\ wire[c] = RefundExpanded("re_2")
        /\ result[c].v.o["charge"].v.t = "Object"
        /\ Expandable_id(result[c].v.o["charge"].v) = "ch_123"
        /\ result[c].v.o["balance_transaction"].v = ExpId("txn_1")

\* C8: an expandable reference serializes to its identifier, whichever
\* variant it is, and deserializes from that to the Id variant of the same
\* id().
C8_ExpandableSerializesAsId ==
    \A c \in Callers :
        (ReturnedOk(c) /\ request[c].ret \in {"Refund", "Subscription"}) =>
            LET dto == result[c].v.o
                out == Serialize(Table(request[c].ret), dto)
                back == DeValue(request[c].ret, JObj(out))
            IN  \A f \in ExpandableFields(request[c].ret) :
                    dto[f].set =>
                        /\ Has(out, f)
                        /\ out[f] = JStr(Expandable_id(dto[f].v))
                        /\ back.ok
                        /\ back.v.o[f].v = ExpId(Expandable_id(dto[f].v))

\* C8 witness: a subscription was returned with `customer` inlined, which
\* serializes to the customer's identifier
C8_Witness ==
    \E c \in Callers :
        /\ ReturnedOk(c)
        /\ request[c].ret = "Subscription"
        /\ result[c].v.o["customer"].v.t = "Object"
        /\ Serialize(Subscription, result[c].v.o)["customer"] = JStr("cus_1")

\* the payload received is a page of refunds or subscriptions
IsPage(j) ==
    /\ j.t = "obj"
    /\ Has(j.o, "data") /\ j.o["data"].t = "arr"
    /\ Has(j.o, "has_more") /\ j.o["has_more"].t = "bool"

\* C9: a list response with N items and has_more = b is returned as a list
\* with has_more() = b and N items in the order of `data`; a page with the
\* one refund "re_1" and has_more = false, received for Refund::list of the
\* charge "ch_123", as one item of id "re_1".
C9_ListKeepsPage ==
    \A c \in Callers :
        /\ (ReturnedOk(c) /\ request[c].ret \in ListTypes) =>
              LET data == wire[c].o["data"].a
                  list == result[c].v
              IN  /\ List_has_more(list) = (wire[c].o["has_more"] = JBool(TRUE))
                  /\ Len(List_items(list)) = Len(data)
                  /\ \A i \in DOMAIN data :
                        List_items(list)[i].o["id"].v = data[i].o["id"]
        /\ (/\ Returned(c)
            /\ op[c] = "Refund::list"
            /\ wire[c] = ListPayload(<< RefundPayload("re_1") >>, FALSE)) =>
              /\ result[c].tag = "Ok"
              /\ ~List_has_more(result[c].v)
              /\ Len(List_items(result[c].v)) = 1
              /\ Refund_id(List_items(result[c].v)[1].o) = "re_1"

\* C9 witness: Refund::list of the charge "ch_123" returned a page of two
\* different refunds with has_more = true
C9_Witness ==
    \E c \in Callers :
        /\ ReturnedOk(c)
        /\ op[c] = "Refund::list"
        /\ arg[c]["charge"] = Some(JStr("ch_123"))
        /\ List_has_more(result[c].v)
        /\ Len(List_items(result[c].v)) = 2
        /\ Refund_id(List_items(result[c].v)[1].o) = "re_1"
        /\ Refund_id(List_items(result[c].v)[2].o) = "re_2"

\* C10: object() is "refund" for every Refund and "subscription" for
\* every Subscription, whatever their fields hold, and the two differ.
C10_ObjectTagIsFixed ==
    \A c \in Callers :
        ReturnedOk(c) =>
            /\ request[c].ret = "Refund" => Refund_object(result[c].v.o) = "refund"
            /\ request[c].ret = "Subscription" =>
                  /\ Subscription_object(result[c].v.o) = "subscription"
                  /\ Subscription_object(result[c].v.o) # Refund_object(result[c].v.o)
            /\ request[c].ret = "List<Refund>" =>
                  \A i \in DOMAIN List_items(result[c].v) :
                      Refund_object(List_items(result[c].v)[i].o) = "refund"
            /\ request[c].ret = "List<Subscription>" =>
                  \A i \in DOMAIN List_items(result[c].v) :
                      Subscription_object(List_items(result[c].v)[i].o) = "subscription"

\* C10 witness: a subscription with its customer inlined was returned
C10_Witness ==
    \E c \in Callers :
        /\ ReturnedOk(c)
        /\ request[c].ret = "Subscription"
        /\ wire[c] = SubscriptionExpanded
        /\ Subscription_id(result[c].v.o) = "sub_1"

\* C11: for every Refund and Subscription held, each call of id() returned
\* the DTO's own `id` field, the calls of id() returned equal values and so
\* did the calls of object(), and the DTO is as it was deserialized, every
\* field of it.
C11_AccessorsReadOnly ==
    (dtoCase.at = "held" /\ dtoCase.ty \in {"Refund", "Subscription"}) =>
        /\ \A i \in DOMAIN dtoCase.ids :
              /\ dtoCase.ids[i] = dtoCase.dto.o["id"].v.s
              /\ dtoCase.ids[i] = dtoCase.payload.o["id"].s
              /\ dtoCase.ids[i] = dtoCase.ids[1]
        /\ \A i \in DOMAIN dtoCase.tags : dtoCase.tags[i] = dtoCase.tags[1]
        /\ dtoCase.dto = dtoCase.made

\* C11 witness: a refund whose `charge` is expanded was asked twice for its
\* id() and twice for its object()
C11_Witness ==
    /\ dtoCase.at = "held"
    /\ dtoCase.ty = "Refund"
    /\ dtoCase.payload = RefundExpanded("re_2")
    /\ dtoCase.ids = << "re_2", "re_2" >>
    /\ dtoCase.tags = << "refund", "refund" >>

\* the resource kind an identifier names, by its prefix
KindOfId(id) ==
    CASE id \in {"re_1", "re_2"} -> "refund"
      [] id = "sub_1" -> "subscription"
      [] id = "cus_1" -> "customer"
      [] id = "ch_123" -> "charge"
      [] id = "gold" -> "plan"
      [] OTHER -> ""

\* the resource kind the identifier argument of an operation is to name
ResourceOf(name) ==
    CASE name \in {"Refund::retrieve", "Refund::update"} -> "refund"
      [] name \in {"Subscription::retrieve", "Subscription::update",
                   "Subscription::cancel"} -> "subscription"
      [] name \in {"Customer::get", "Customer::update", "Customer::delete"} -> "customer"
      [] name \in {"Source::get", "Source::update"} -> "source"
      [] OTHER -> ""

\* the identifier-valued fields of the parameter structures, and their kinds
IdFields(name) ==
    CASE name = "Refund::list" ->
            {<< "charge", "charge" >>, << "starting_after", "refund" >>,
             << "ending_before", "refund" >>}
      [] name = "Subscription::list" ->
            {<< "customer", "customer" >>, << "plan", "plan" >>}
      [] name \in {"Subscription::create", "Subscription::update"} ->
            {<< "customer", "customer" >>, << "plan", "plan" >>}
      [] OTHER -> {}

\* C12: the identifier an identifier-addressed operation was called with
\* names a resource of the operation's own kind, and no populated
\* identifier-valued parameter field holds the identifier of a resource of
\* another kind.
C12_IdentifiersOfOwnKind ==
    \A c \in Callers :
        Called(c) =>
            /\ ident[c] # "" => KindOfId(ident[c]) = ResourceOf(op[c])
            /\ \A f \in IdFields(op[c]) :
                  arg[c][f[1]].set => KindOfId(arg[c][f[1]].v.s) \in {"", f[2]}

\* the request an operation of Refund hands to the transport when it runs
\* with no other call in progress
RequestAlone(name, id, params) ==
    CASE name = "Refund::list" ->
            [shim |-> "get_query", path |-> "/refunds", key |-> "",
             body |-> Serialize(ListRefunds, params), ret |-> "List<Refund>"]
      [] name = "Refund::create" ->
            [shim |-> "post_form", path |-> "/refunds", key |-> "",
             body |-> Serialize(CreateRefund, params), ret |-> "Refund"]
      [] name = "Refund::retrieve" ->
            [shim |-> "get_query", path |-> "/refunds/" \o id, key |-> "",
             body |-> Serialize(Expand, params), ret |-> "Refund"]
      [] name = "Refund::update" ->
            [shim |-> "post_form", path |-> "/refunds/" \o id, key |-> "",
             body |-> Serialize(UpdateRefund, params), ret |-> "Refund"]
      [] OTHER -> NoRequest

\* C13: whatever calls overlap, the request of each call in progress is
\* the request its operation builds from its own arguments when it runs
\* alone, and what it returned is its own transport response: the error
\* received, or the payload it received deserialized as its return type.
C13_CallsAreIndependent ==
    \A c \in Callers :
        /\ Called(c) =>
              /\ request[c] = RequestAlone(op[c], ident[c], arg[c])
              /\ shimCalls[c] = 1
        /\ Returned(c) =>
              /\ result[c] = response[c]
              /\ result[c] = IF wire[c] = JNull THEN ErrR("network")
                             ELSE Deserialized(request[c].ret, wire[c])
        /\ ~Called(c) => (request[c] = NoRequest /\ result[c] = NoResult)

\* C13 witness: Refund::update of one refund has returned the refund while
\* Refund::retrieve of another refund, by another caller, has received a
\* payload of another shape
C13_Witness ==
    \E c, d \in Callers :
        /\ c # d
        /\ pc[c] = "returned" /\ op[c] = "Refund::update" /\ ident[c] = "re_1"
        /\ request[c].body = [metadata |-> SomeMetadata]
        /\ result[c].tag = "Ok"
        /\ pc[d] = "got" /\ op[d] = "Refund::retrieve" /\ ident[d] = "re_2"
        /\ response[d] = ErrR("shape")

\* the optional fields of a DTO type
OptionalOf(ty) == {n \in Names(Table(ty)) : FieldOf(Table(ty), n).opt}

\* the DTO held is of a type that is serialized, and was serialized again
Rewritten ==
    /\ dtoCase.at = "held"
    /\ dtoCase.ty \in {"Refund", "Subscription", "MerchantData"}
    /\ dtoCase.written

AlwaysPresent == {"id", "created", "livemode"}

\* C15: a payload that lacks `id`, `created` or `livemode` is not
\* deserialized as a Refund, a Subscription or a Customer, and a DTO of one
\* of these types holds each of the three with the payload's value.
C15_AlwaysPresentFieldsRequired ==
    (dtoCase.at # "none" /\ dtoCase.ty \in {"Refund", "Subscription", "Customer"}) =>
        /\ (\E k \in AlwaysPresent : ~Has(dtoCase.payload.o, k)) => dtoCase.at = "failed"
        /\ dtoCase.at = "held" =>
              \A k \in AlwaysPresent :
                  /\ k \in DOMAIN dtoCase.dto.o
                  /\ dtoCase.dto.o[k] = Plain(dtoCase.payload.o[k])

\* the keys of the serialized instance follow its optional fields: the key
\* of a field is there exactly when the field is populated, clearing a
\* populated field takes its key away and populating an unset one adds its
\* key with the field's value, and either leaves every other key as it was
KeysFollowFields(fields, inst) ==
    LET body == Serialize(fields, inst)
    IN  \A n \in Optional(fields) :
            LET fld == FieldOf(fields, n)
            IN  /\ Has(body, fld.key) <=> Populated(fld, inst[n])
                /\ Populated(fld, inst[n]) =>
                      /\ body[fld.key] = ToWire(fld.ty, inst[n].v)
                      /\ Serialize(fields, [inst EXCEPT ![n] = UnsetValue(fld)])
                             = Without(body, fld.key)
                /\ ~Populated(fld, inst[n]) =>
                      \A fv \in SetValues(fld) :
                          Serialize(fields, [inst EXCEPT ![n] = fv])
                              = With(body, fld.key, ToWire(fld.ty, fv.v))

\* the parameter structures that are the values of fields of others
NestedKeysFollowFields ==
    /\ \A inst \in Instances(ItemParams) : KeysFollowFields(ItemParams, inst)
    /\ \A inst \in Instances(OwnerParams) : KeysFollowFields(OwnerParams, inst)

\* C16: the body a call hands to the transport has the key of an optional field
\* of the parameter structure exactly when the field is populated, and
\* populating or clearing one field changes the presence and the value of
\* its own key only; `source_type` of SourceParams is sent under the key
\* `type`.
C16_KeyIffPopulated ==
    /\ NestedKeysFollowFields
    /\ \A c \in Callers :
          (pc[c] = "shim" /\ ParamsOf(op[c]) # << >>) =>
              /\ request[c].body = Serialize(ParamsOf(op[c]), arg[c])
              /\ KeysFollowFields(ParamsOf(op[c]), arg[c])
              /\ op[c] \in {"Source::create", "Source::update"} =>
                    /\ ~Has(request[c].body, "source_type")
                    /\ arg[c]["source_type"].set =>
                          /\ Has(request[c].body, "type")
                          /\ request[c].body["type"] = arg[c]["source_type"].v

\* C16 witness: Source::create was called with `source_type` and `amount`
\* populated and sends the keys `type` and `amount`
C16_Witness ==
    \E c \in Callers :
        /\ pc[c] = "shim"
        /\ op[c] = "Source::create"
        /\ PopulatedFields(SourceParams, arg[c]) = {"source_type", "amount"}
        /\ DOMAIN request[c].body = {"type", "amount"}

DocumentedFilterValues ==
    {"incomplete", "incomplete_expired", "trialing", "active", "past_due", "unpaid",
     "canceled", "all"}
DocumentedStatuses == DocumentedFilterValues \ {"all"}

\* C18: every value a SubscriptionStatusFilter serializes to is one of the
\* eight documented values, each of the eight is the wire string of a
\* variant, and every SubscriptionStatus, one of the seven documented
\* statuses, has a filter value of the same wire string.
C18_EightFilterValues ==
    (enumCase.at = "serialized" /\ enumCase.ty = "SubscriptionStatusFilter") =>
        /\ enumCase.text.t = "str"
        /\ enumCase.text.s \in DocumentedFilterValues
        /\ DocumentedFilterValues \subseteq Variants("SubscriptionStatusFilter")
        /\ Variants("SubscriptionStatus") = DocumentedStatuses
        /\ Variants("SubscriptionStatus") \subseteq Variants("SubscriptionStatusFilter")

\* C19: as_str, as_ref and Display of a RefundReason give the same string,
\* the wire string the variant serializes to, which is one of `duplicate`,
\* `fraudulent`, `requested_by_customer`, its name in snake_case; and two
\* variants never give the same string.
C19_ReasonStrings ==
    (enumCase.at = "serialized" /\ enumCase.ty = "RefundReason") =>
        LET v == RefundReason[enumCase.i]
        IN  /\ \A k \in DOMAIN enumCase.shown :
                  enumCase.shown[k] # "" => enumCase.shown[k] = enumCase.text.s
            /\ RefundReason_as_str(enumCase.i) = enumCase.text.s
            /\ enumCase.text.s = SnakeCase(v.segs)
            /\ enumCase.text.s \in {"duplicate", "fraudulent", "requested_by_customer"}
            /\ \A k \in DOMAIN RefundReason :
                  k # enumCase.i =>
                      /\ RefundReason_as_str(k) # RefundReason_as_str(enumCase.i)
                      /\ RefundReasonWire[k] # enumCase.text.s

\* C19 witness: RequestedByCustomer was serialized and shown by as_str,
\* as_ref and Display
C19_Witness ==
    /\ enumCase.at = "serialized"
    /\ enumCase.ty = "RefundReason"
    /\ VariantName(RefundReason[enumCase.i]) = "RequestedByCustomer"
    /\ enumCase.text = JStr("requested_by_customer")
    /\ enumCase.shown = [as_str |-> "requested_by_customer",
                         as_ref |-> "requested_by_customer",
                         display |-> "requested_by_customer"]

\* C20: the wire string of a variant is its name in snake_case, for
\* USFederalGovernmentAgenciesOrDepartments the string
\* `u_s_federal_government_agencies_or_departments`; no other variant of
\* the enumeration has the same wire string; the wire string deserializes
\* to the variant it came from; and a text that is no wire string of the
\* enumeration fails to deserialize.
C20_EnumWireStrings ==
    /\ (enumCase.at \in {"serialized", "parsed"} /\ enumCase.i > 0) =>
          LET v == EnumTable(enumCase.ty)[enumCase.i]
          IN  /\ enumCase.text.t = "str"
              /\ enumCase.text.s = SnakeCase(v.segs)
              /\ VariantName(v) = "USFederalGovernmentAgenciesOrDepartments" =>
                    enumCase.text.s = "u_s_federal_government_agencies_or_departments"
              /\ VariantName(v) = "ChargeAutomatically" =>
                    enumCase.text.s = "charge_automatically"
              /\ enumCase.ty = "SubscriptionStatus" =>
                    enumCase.text.s \in DocumentedStatuses
              /\ \A k \in DOMAIN Wires(enumCase.ty) :
                    k # enumCase.i => Wires(enumCase.ty)[k] # enumCase.text.s
              /\ enumCase.at = "parsed" => enumCase.back = [ok |-> TRUE, i |-> enumCase.i]
    /\ (enumCase.at = "parsed" /\ enumCase.i = 0) =>
          /\ enumCase.back.ok <=>
                (enumCase.text.t = "str" /\ enumCase.text.s \in Variants(enumCase.ty))
          /\ enumCase.text \in {JStr("Duplicate"), JStr("sendInvoice"), JStr(""), JNum(1)} =>
                ~enumCase.back.ok

\* C20 witness: USFederalGovernmentAgenciesOrDepartments was serialized and
\* its wire string deserialized
C20_Witness ==
    /\ enumCase.at = "parsed"
    /\ enumCase.ty = "MerchantCategory"
    /\ enumCase.i > 0
    /\ VariantName(MerchantCategory[enumCase.i]) = "USFederalGovernmentAgenciesOrDepartments"
    /\ enumCase.text = JStr("u_s_federal_government_agencies_or_departments")
    /\ enumCase.back.ok

\* the wire value of a populated two-variant field is the value its variant
\* holds and nothing around it: of the shape `first` when the variant holds
\* the first shape and of the shape `second` when it holds the second, never
\* both, and no key of the body or of the value is the name of a variant
BareValue(ty, body, key, fv, first, second) ==
    fv.set =>
        /\ Has(body, key)
        /\ fv.v.t = "variant"
        /\ fv.v.s \in {UntaggedTable(ty)[i].name : i \in DOMAIN UntaggedTable(ty)}
        /\ body[key] = fv.v.a[1]
        /\ fv.v.s = UntaggedTable(ty)[1].name => body[key].t = first
        /\ fv.v.s = UntaggedTable(ty)[2].name => body[key].t = second
        /\ (body[key].t = first) # (body[key].t = second)
        /\ \A i \in DOMAIN UntaggedTable(ty) :
              /\ ~Has(body, UntaggedTable(ty)[i].name)
              /\ ~Has(body[key].o, UntaggedTable(ty)[i].name)

\* C21: a populated `trial_end` of SubscriptionParams is sent as the number
\* t when it is Timestamp(t) and as the string s when it is Special(s), and a
\* populated `source` of CustomerParams as the string s when it is Token(s)
\* and as the object of the card parameters when it is Card(p): the bare
\* inner value, exactly one of the two shapes, with no variant tag and no
\* wrapper key.
C21_UntaggedBareValue ==
    \A c \in Callers :
        pc[c] = "shim" =>
            /\ op[c] \in {"Subscription::create", "Subscription::update"} =>
                  BareValue("TrialEnd", request[c].body, "trial_end",
                            arg[c]["trial_end"], "num", "str")
            /\ op[c] \in {"Customer::create", "Customer::update"} =>
                  BareValue("CustomerSource", request[c].body, "source",
                            arg[c]["source"], "str", "obj")

\* C21 witness: Subscription::update was called with trial_end =
\* Some(Timestamp(1)) and sends `trial_end` as the number 1
C21_Witness ==
    \E c \in Callers :
        /\ pc[c] = "shim"
        /\ op[c] = "Subscription::update"
        /\ arg[c]["trial_end"] = Some(Variant("Timestamp", JNum(1)))
        /\ request[c].body["trial_end"] = JNum(1)

=============================================================================
